---- MODULE Spec2Model ----
(***************************************************************************)
(* Lattice: an in-process trigram search engine (lattice-core,             *)
(* lattice-types).  The module models the engine value `Lattice` with its  *)
(* arena, delta buffer, committed index and counters, and the public       *)
(* calls add / search / clear / get.                                       *)
(*                                                                         *)
(* Texts.  A Rust &str is a sequence of UTF-8 encoded characters.  A text  *)
(* is modelled as a sequence of runs <<unit, n>>: the byte tuple `unit`    *)
(* repeated n times.  In an input text every unit is the UTF-8 encoding of *)
(* one character, so a run stands for n consecutive copies of a character. *)
(* Run lengths let the model hold inputs at the real size limits (65535    *)
(* bytes) without enumerating them byte by byte; Bytes(text) is the flat   *)
(* byte string.                                                            *)
(*                                                                         *)
(* Scratch buffers of the engine that every call overwrites before reading *)
(* (norm_buf, query_buf, candidates, results) are local values of the      *)
(* actions and not state variables.                                        *)
(***************************************************************************)
EXTENDS Integers, Sequences, FiniteSets, TLC

\* ------------------------------------------------------------------------
\* Bounds of the model
\* ------------------------------------------------------------------------
\* successful add calls in one behaviour (since construction)
MaxAdds == 3
\* cap on the query counter between clears
MaxQueries == 2

\* ------------------------------------------------------------------------
\* Program constants
\* ------------------------------------------------------------------------
MAX_QUERY_TRIGRAMS == 30
PREFIX_BONUS == 2
MAX_CANDIDATES == 100000
MAX_QUERY_LENGTH == 1000
MAX_DOCUMENT_LENGTH == 65535
MAX_SEED_POSTING_LIST == 100000
RADIX_SORT_THRESHOLD == 512
\* u16::MAX, the largest length a DocSpan can hold
U16_MAX == 65535

\* Option<T>: None is the empty tuple, Some(x) the one-element tuple
None == << >>
Some(x) == << x >>

\* ------------------------------------------------------------------------
\* Texts as runs
\* ------------------------------------------------------------------------
RECURSIVE RLen(_)
\* str::len(): number of bytes of a text
RLen(text) ==
  IF text = << >> THEN 0
  ELSE Len(Head(text)[1]) * Head(text)[2] + RLen(Tail(text))

\* the bytes of one run
RunBytes(run) ==
  [i \in 1..(Len(run[1]) * run[2]) |-> run[1][((i - 1) % Len(run[1])) + 1]]

RECURSIVE Bytes(_)
\* str::as_bytes(): the flat byte string of a text
Bytes(text) ==
  IF text = << >> THEN << >>
  ELSE RunBytes(Head(text)) \o Bytes(Tail(text))

\* a text of single characters given by their (ASCII) bytes
Str(bs) == [i \in 1..Len(bs) |-> << << bs[i] >>, 1 >>]

\* ------------------------------------------------------------------------
\* Normalizer (analyzer/normalizer.rs)
\* ------------------------------------------------------------------------
is_ascii_ws(b) == b \in {9, 10, 13, 32}

\* 256-entry table: 'A'..'Z' map to 'a'..'z', every other byte to itself
LOWERCASE_TABLE(b) == IF b >= 65 /\ b <= 90 THEN b + 32 ELSE b

\* char::to_lowercase for the non-ASCII characters of the model, as the
\* sequence of lowercase characters (each a UTF-8 byte tuple):
\*   U+0130 (C4 B0)  ->  'i' U+0307 (69, CC 87)      the one expanding mapping
\*   U+00C9 (C3 89)  ->  U+00E9 (C3 A9)
\*   anything else   ->  itself
to_lowercase(ch) ==
  IF ch = <<196, 176>> THEN << <<105>>, <<204, 135>> >>
  ELSE IF ch = <<195, 137>> THEN << <<195, 169>> >>
  ELSE << ch >>

\* NUL, the marker fold_latin1 returns for a combining mark
NUL == << 0 >>

\* fold_latin1: combining marks U+0300..U+036F (CC 80..CD AF) fold to NUL,
\* accented Latin letters to their base letter (here U+00E9 -> 'e'),
\* everything else to itself
fold_latin1(c) ==
  IF Len(c) = 2 /\ ((c[1] = 204 /\ c[2] >= 128 /\ c[2] <= 191)
                    \/ (c[1] = 205 /\ c[2] >= 128 /\ c[2] <= 175))
    THEN NUL
  ELSE IF c = <<195, 169>> THEN <<101>>
  ELSE c

RECURSIVE FoldAll(_, _)
\* the `for lowered in ch.to_lowercase()` loop: the bytes written for one
\* input character (empty when every lowered character is skipped)
FoldAll(lowered, strip) ==
  IF lowered = << >> THEN << >>
  ELSE LET folded == IF strip THEN fold_latin1(Head(lowered)) ELSE Head(lowered)
       IN  IF strip /\ folded = NUL
             THEN FoldAll(Tail(lowered), strip)
             ELSE folded \o FoldAll(Tail(lowered), strip)

\* a faulty loop body that clears prev_space for a character all of whose
\* lowered characters were skipped
NormRun_ClearOnSkip(st, run, strip) ==
  LET ch == run[1]
      n  == run[2]
  IN  IF ch[1] < 128
        THEN IF is_ascii_ws(ch[1])
               THEN IF ~st.prev_space
                      THEN [out |-> Append(st.out, << <<32>>, 1 >>), prev_space |-> TRUE]
                      ELSE st
               ELSE [out |-> Append(st.out, << <<LOWERCASE_TABLE(ch[1])>>, n >>),
                     prev_space |-> FALSE]
        ELSE LET piece == FoldAll(to_lowercase(ch), strip)
             IN  IF piece = << >> THEN [st EXCEPT !.prev_space = FALSE]
                 ELSE [out |-> Append(st.out, << piece, n >>), prev_space |-> FALSE]

\* one run of the input through the loop body; st = [out, prev_space].
\* ASCII byte (b < 128): whitespace writes one ' ' unless prev_space, other
\* bytes write LOWERCASE_TABLE[b]; n copies of a whitespace byte write at
\* most one ' ', n copies of another byte write n bytes.
\* Non-ASCII character: writes its lowered (and folded) characters and
\* clears prev_space, unless all of them were skipped.
NormRun(st, run, strip) ==
  LET ch == run[1]
      n  == run[2]
  IN  IF ch[1] < 128
        THEN IF is_ascii_ws(ch[1])
               THEN IF ~st.prev_space
                      THEN [out |-> Append(st.out, << <<32>>, 1 >>), prev_space |-> TRUE]
                      ELSE st
               ELSE [out |-> Append(st.out, << <<LOWERCASE_TABLE(ch[1])>>, n >>),
                     prev_space |-> FALSE]
        ELSE LET piece == FoldAll(to_lowercase(ch), strip)
             IN  IF piece = << >> THEN st
                 ELSE [out |-> Append(st.out, << piece, n >>), prev_space |-> FALSE]

RECURSIVE NormLoop(_, _, _)
NormLoop(st, text, strip) ==
  IF text = << >> THEN st
  ELSE NormLoop(NormRun(st, Head(text), strip), Tail(text), strip)

\* `wrote -= 1`: the text without its last byte
DropLastByte(out) ==
  LET k    == Len(out)
      last == out[k]
      init == SubSeq(out, 1, k - 1)
      u    == last[1]
  IN  IF Len(u) = 1
        THEN IF last[2] = 1 THEN init ELSE Append(init, << u, last[2] - 1 >>)
        ELSE (IF last[2] = 1 THEN init ELSE Append(init, << u, last[2] - 1 >>))
             \o << << SubSeq(u, 1, Len(u) - 1), 1 >> >>

\* TextNormalizer::normalize_into: the normalized text
normalize_into(input, strip) ==
  LET st == NormLoop([out |-> << >>, prev_space |-> FALSE], input, strip)
  IN  IF st.prev_space /\ RLen(st.out) > 0 THEN DropLastByte(st.out) ELSE st.out

\* String::reserve(additional) on a buffer of capacity cap holding len
\* bytes: nothing if the spare capacity suffices, otherwise the capacity
\* becomes max(2 * cap, len + additional, 8)
Reserve(cap, len, additional) ==
  IF additional <= cap - len THEN cap
  ELSE LET required == len + additional
           doubled  == 2 * cap
           grown    == IF doubled > required THEN doubled ELSE required
       IN  IF grown > 8 THEN grown ELSE 8

RECURSIVE FoldSizes(_, _)
\* the encoded lengths of the characters written for one input character
FoldSizes(lowered, strip) ==
  IF lowered = << >> THEN << >>
  ELSE LET folded == IF strip THEN fold_latin1(Head(lowered)) ELSE Head(lowered)
       IN  IF strip /\ folded = NUL
             THEN FoldSizes(Tail(lowered), strip)
             ELSE << Len(folded) >> \o FoldSizes(Tail(lowered), strip)

RECURSIVE SumSizes(_)
SumSizes(sizes) == IF sizes = << >> THEN 0 ELSE Head(sizes) + SumSizes(Tail(sizes))

RECURSIVE WriteChar(_, _)
\* the writes of one non-ASCII input character; b = [wrote, cap, over].
\* Before each encoded character: if wrote + enc.len() > capacity then
\* set_len(wrote) and reserve(32).
WriteChar(b, sizes) ==
  IF sizes = << >> THEN b
  ELSE LET cap == IF b.wrote + Head(sizes) > b.cap
                    THEN Reserve(b.cap, b.wrote, 32) ELSE b.cap
       IN  WriteChar([b EXCEPT !.wrote = @ + Head(sizes), !.cap = cap], Tail(sizes))

RECURSIVE WriteChars(_, _, _)
\* n copies of one non-ASCII character: the copies that fit the spare
\* capacity are written without a reserve, the next one reserves
WriteChars(b, sizes, n) ==
  LET total == SumSizes(sizes)
      spare == IF b.cap > b.wrote THEN b.cap - b.wrote ELSE 0
      fit   == IF total = 0 \/ spare \div total > n THEN n ELSE spare \div total
  IN  IF n = 0 THEN b
      ELSE IF fit > 0
        THEN WriteChars([b EXCEPT !.wrote = @ + fit * total], sizes, n - fit)
        ELSE WriteChars(WriteChar(b, sizes), sizes, n - 1)

\* one run of the input through the loop body, for the buffer:
\* b = [wrote, cap, over, prev_space].  The ASCII loops write through the raw
\* pointer without looking at the capacity: over records a write at an
\* offset >= capacity.
BufferRun(b, run, strip) ==
  LET ch == run[1]
      n  == run[2]
  IN  IF ch[1] < 128
        THEN LET w  == IF is_ascii_ws(ch[1]) THEN (IF b.prev_space THEN 0 ELSE 1) ELSE n
             IN  [wrote |-> b.wrote + w, cap |-> b.cap,
                  over |-> b.over \/ (w > 0 /\ b.wrote + w > b.cap),
                  prev_space |-> is_ascii_ws(ch[1])]
        ELSE LET sizes == FoldSizes(to_lowercase(ch), strip)
                 c == WriteChars(b, sizes, n)
             IN  IF sizes = << >> THEN b ELSE [c EXCEPT !.prev_space = FALSE]

RECURSIVE BufferLoop(_, _, _)
BufferLoop(b, text, strip) ==
  IF text = << >> THEN b
  ELSE BufferLoop(BufferRun(b, Head(text), strip), Tail(text), strip)

\* TextNormalizer::normalize_into, for the buffer `out` of capacity cap:
\* its capacity after the call, and whether the call wrote past the end of
\* the allocation (undefined behaviour)
normalize_buffer(input, strip, cap) ==
  LET cap0 == Reserve(cap, 0, RLen(input) + RLen(input) \div 8)
      b == BufferLoop([wrote |-> 0, cap |-> cap0, over |-> FALSE, prev_space |-> FALSE],
                      input, strip)
  IN  [cap |-> b.cap, over |-> b.over]

\* the length of the UTF-8 character that starts with the byte b
len_utf8(b) == IF b < 128 THEN 1 ELSE IF b < 224 THEN 2 ELSE IF b < 240 THEN 3 ELSE 4

RECURSIVE Chars(_)
\* str::chars(): a byte string read back as a text, one character per run
Chars(bytes) ==
  IF bytes = << >> THEN << >>
  ELSE LET k == len_utf8(bytes[1])
       IN  << << SubSeq(bytes, 1, k), 1 >> >> \o Chars(SubSeq(bytes, k + 1, Len(bytes)))

\* TextNormalizer::normalize: the returned String (as bytes), and whether the
\* call wrote past the end of its String::with_capacity(input.len())
normalize(input, strip) ==
  [out |-> Bytes(normalize_into(input, strip)),
   ub  |-> normalize_buffer(input, strip, RLen(input)).over]

\* ------------------------------------------------------------------------
\* Trigrams (lattice-types, analyzer/trigram.rs)
\* ------------------------------------------------------------------------
\* Trigram::from_bytes: (b0 << 16) | (b1 << 8) | b2
from_bytes(b0, b1, b2) == b0 * 65536 + b1 * 256 + b2

\* a faulty extraction that stops one window early
extract_trigrams_OneShort(bytes) ==
  IF Len(bytes) < 3 THEN << >>
  ELSE [i \in 1..(Len(bytes) - 3) |-> from_bytes(bytes[i], bytes[i + 1], bytes[i + 2])]

\* extract_trigrams: the trigrams of the sliding 3-byte window, in order
extract_trigrams(bytes) ==
  IF Len(bytes) < 3 THEN << >>
  ELSE [i \in 1..(Len(bytes) - 2) |-> from_bytes(bytes[i], bytes[i + 1], bytes[i + 2])]

\* ------------------------------------------------------------------------
\* Arena (arena.rs)
\* ------------------------------------------------------------------------
\* Arena::with_capacity
ArenaNew == [buffer |-> << >>, spans |-> << >>, head |-> 0]

\* Arena::len
ArenaLen(arena) == Len(arena.spans)

\* a faulty Arena::clear that resets the bump pointer but keeps the spans
ArenaClear_KeepSpans(arena) == [arena EXCEPT !.head = 0]

\* Arena::clear: resets the bump pointer and the spans, keeps the buffer
ArenaClear(arena) == [arena EXCEPT !.head = 0, !.spans = << >>]

\* a faulty Arena::push that does not advance the bump pointer
ArenaPush_NoBump(arena, text) ==
  LET len == RLen(text)
  IN  IF len > U16_MAX
        THEN [id |-> None, arena |-> arena]
        ELSE [id |-> Some(Len(arena.spans)),
              arena |-> [buffer |-> SubSeq(arena.buffer, 1, arena.head) \o Bytes(text),
                         head |-> arena.head,
                         spans |-> Append(arena.spans,
                                          [offset |-> arena.head, len |-> len % 65536])]]

\* Arena::push: None when the text is longer than u16::MAX, else the bytes
\* are copied to buffer[head..], the buffer length is set to the new head
\* and the span (offset as u32, len as u16) is recorded.  The offsets of
\* the model stay far below 2^32, where `as u32` is the identity.
ArenaPush(arena, text) ==
  LET len == RLen(text)
  IN  IF len > U16_MAX
        THEN [id |-> None, arena |-> arena]
        ELSE LET doc_id == Len(arena.spans)
                 offset == arena.head
             IN  [id |-> Some(doc_id),
                  arena |-> [buffer |-> SubSeq(arena.buffer, 1, offset) \o Bytes(text),
                             head |-> offset + len,
                             spans |-> Append(arena.spans,
                                              [offset |-> offset, len |-> len % 65536])]]

\* Arena::get: the bytes of the span, None for an id without a span
ArenaGet(arena, doc_id) ==
  IF doc_id >= Len(arena.spans) THEN None
  ELSE LET span == arena.spans[doc_id + 1]
       IN  Some(SubSeq(arena.buffer, span.offset + 1, span.offset + span.len))

\* ------------------------------------------------------------------------
\* Index builder (index/builder.rs)
\* ------------------------------------------------------------------------
\* the comparison of sort_trigrams: by trigram, then by doc id
EntryLess(a, b) ==
  a.trigram < b.trigram \/ (a.trigram = b.trigram /\ a.doc_id < b.doc_id)

RECURSIVE SortedRuns(_, _)
\* the entries whose value is in `values`, ascending by (trigram, doc_id),
\* every value as often as it occurs in `entries`
SortedRuns(entries, values) ==
  IF values = {} THEN << >>
  ELSE LET e == CHOOSE x \in values : \A y \in values \ {x} : EntryLess(x, y)
       IN  SelectSeq(entries, LAMBDA x : x = e) \o SortedRuns(entries, values \ {e})

\* entries.sort_unstable_by(trigram, then doc_id): entries that compare
\* equal are identical records, so the result is unique
ComparisonSort(entries) ==
  SortedRuns(entries, {entries[i] : i \in 1..Len(entries)})

\* the key byte of one radix pass
RadixKey(e, field, shift) ==
  ((IF field = "doc_id" THEN e.doc_id ELSE e.trigram) \div (2 ^ shift)) % 256

RECURSIVE RadixBuckets(_, _, _, _)
\* the buckets of the key bytes `keys` in ascending order, each holding its
\* entries in source order: offsets[k] is the number of entries with a
\* smaller key byte, and the scatter loop fills a bucket in source order.
\* A key byte that no entry has gives an empty bucket.
RadixBuckets(src, field, shift, keys) ==
  IF keys = {} THEN << >>
  ELSE LET k == CHOOSE x \in keys : \A y \in keys : x <= y
       IN  SelectSeq(src, LAMBDA e : RadixKey(e, field, shift) = k)
             \o RadixBuckets(src, field, shift, keys \ {k})

\* radix_pass: stable counting sort of src on one key byte (histogram,
\* prefix sums, scatter in source order)
radix_pass(src, field, shift) ==
  RadixBuckets(src, field, shift,
               {RadixKey(src[i], field, shift) : i \in 1..Len(src)})

\* a faulty sort_trigrams whose radix path leaves out the pass on the top
\* byte of the doc id
sort_trigrams_SkipPass(entries) ==
  IF Len(entries) < RADIX_SORT_THRESHOLD
    THEN ComparisonSort(entries)
    ELSE LET p1 == radix_pass(entries, "doc_id", 0)
             p2 == radix_pass(p1, "doc_id", 8)
             p3 == radix_pass(p2, "doc_id", 16)
             p5 == radix_pass(p3, "trigram", 0)
             p6 == radix_pass(p5, "trigram", 8)
         IN  radix_pass(p6, "trigram", 16)

\* sort_trigrams: comparison sort below RADIX_SORT_THRESHOLD entries, seven
\* LSD radix passes (four doc-id bytes, three trigram bytes) from there on
sort_trigrams(entries) ==
  IF Len(entries) < RADIX_SORT_THRESHOLD
    THEN ComparisonSort(entries)
    ELSE LET p1 == radix_pass(entries, "doc_id", 0)
             p2 == radix_pass(p1, "doc_id", 8)
             p3 == radix_pass(p2, "doc_id", 16)
             p4 == radix_pass(p3, "doc_id", 24)
             p5 == radix_pass(p4, "trigram", 0)
             p6 == radix_pass(p5, "trigram", 8)
         IN  radix_pass(p6, "trigram", 16)

\* PostingBlock
Block(t, off, len) == [trigram |-> t, offset |-> off, len |-> len]

RECURSIVE BlockWalk_NoDedup(_, _)
\* a faulty block walk that writes every entry, also a repeated doc id
BlockWalk_NoDedup(w, entries) ==
  IF entries = << >> THEN w
  ELSE IF Len(entries) > 1
    THEN \* the loop over a slice is the loop over its second half, started
         \* from the state that the loop over its first half leaves (which
         \* is evaluated first)
         LET first == BlockWalk_NoDedup(w, SubSeq(entries, 1, Len(entries) \div 2))
         IN  IF first.blocks = first.blocks
               THEN BlockWalk_NoDedup(first, SubSeq(entries, Len(entries) \div 2 + 1, Len(entries)))
               ELSE first
  ELSE LET entry == entries[1]
           w1 == IF entry.trigram # w.current_trigram
                   THEN [w EXCEPT !.blocks = Append(w.blocks,
                                      [trigram |-> w.current_trigram,
                                       offset |-> w.current_offset, len |-> w.current_len]),
                                  !.current_offset = w.current_offset + w.current_len,
                                  !.current_trigram = entry.trigram,
                                  !.current_len = 0]
                   ELSE w
           w2 == [w1 EXCEPT !.postings = Append(w1.postings, entry.doc_id),
                            !.current_len = w1.current_len + 1]
       IN  w2

RECURSIVE BlockWalk(_, _)
\* the `for entry in entries` loop of build_blocks_from_sorted;
\* w = [blocks, postings, current_trigram, current_offset, current_len,
\*      last_doc_id]
BlockWalk(w, entries) ==
  IF entries = << >> THEN w
  ELSE IF Len(entries) > 1
    THEN \* the loop over a slice is the loop over its second half, started
         \* from the state that the loop over its first half leaves (which
         \* is evaluated first)
         LET first == BlockWalk(w, SubSeq(entries, 1, Len(entries) \div 2))
         IN  IF first.blocks = first.blocks
               THEN BlockWalk(first, SubSeq(entries, Len(entries) \div 2 + 1, Len(entries)))
               ELSE first
  ELSE LET entry == entries[1]
           w1 == IF entry.trigram # w.current_trigram
                   THEN [w EXCEPT !.blocks = Append(w.blocks,
                                      Block(w.current_trigram, w.current_offset, w.current_len)),
                                  !.current_offset = w.current_offset + w.current_len,
                                  !.current_trigram = entry.trigram,
                                  !.current_len = 0,
                                  !.last_doc_id = None]
                   ELSE w
           w2 == IF w1.last_doc_id # Some(entry.doc_id)
                   THEN [w1 EXCEPT !.postings = Append(w1.postings, entry.doc_id),
                                   !.current_len = w1.current_len + 1,
                                   !.last_doc_id = Some(entry.doc_id)]
                   ELSE w1
       IN  w2

\* build_blocks_from_sorted: one block per run of equal trigrams, equal
\* consecutive doc ids written once
build_blocks_from_sorted(entries) ==
  IF entries = << >> THEN [blocks |-> << >>, postings |-> << >>]
  ELSE LET w == BlockWalk([blocks |-> << >>, postings |-> << >>,
                           current_trigram |-> entries[1].trigram,
                           current_offset |-> 0, current_len |-> 0,
                           last_doc_id |-> None], entries)
       IN  [blocks |-> Append(w.blocks,
                              Block(w.current_trigram, w.current_offset, w.current_len)),
            postings |-> w.postings]

\* block_postings: the slice postings[offset .. offset + len]
block_postings(block, postings) ==
  SubSeq(postings, block.offset + 1, block.offset + block.len)

RECURSIVE merge_sorted_dedup(_, _)
\* merge_sorted_dedup: two-way merge, an id present in both lists is
\* written once; the result is what the call appends to `out`
merge_sorted_dedup(a, b) ==
  IF a = << >> \/ b = << >> THEN a \o b
  ELSE IF Head(a) < Head(b) THEN << Head(a) >> \o merge_sorted_dedup(Tail(a), b)
  ELSE IF Head(a) > Head(b) THEN << Head(b) >> \o merge_sorted_dedup(a, Tail(b))
  ELSE << Head(a) >> \o merge_sorted_dedup(Tail(a), Tail(b))

\* a faulty copy_block that keeps the offset the block had in its source
copy_block_KeepOffset(block, source_postings, out) ==
  [blocks |-> Append(out.blocks, block),
   postings |-> out.postings \o block_postings(block, source_postings)]

\* copy_block: appends the block's postings and the block at its new offset
copy_block(block, source_postings, out) ==
  [blocks |-> Append(out.blocks,
                     Block(block.trigram, Len(out.postings), block.len)),
   postings |-> out.postings \o block_postings(block, source_postings)]

RECURSIVE MergeLoop(_, _, _, _, _, _, _)
\* the three while loops of merge_indexes with cursors ai, bi (0-based)
MergeLoop(a_blocks, a_postings, b_blocks, b_postings, ai, bi, out) ==
  IF ai < Len(a_blocks) /\ bi < Len(b_blocks)
    THEN LET at == a_blocks[ai + 1].trigram
             bt == b_blocks[bi + 1].trigram
         IN  IF at < bt
               THEN MergeLoop(a_blocks, a_postings, b_blocks, b_postings, ai + 1, bi,
                              copy_block(a_blocks[ai + 1], a_postings, out))
             ELSE IF at > bt
               THEN MergeLoop(a_blocks, a_postings, b_blocks, b_postings, ai, bi + 1,
                              copy_block(b_blocks[bi + 1], b_postings, out))
             ELSE LET merged == merge_sorted_dedup(
                                  block_postings(a_blocks[ai + 1], a_postings),
                                  block_postings(b_blocks[bi + 1], b_postings))
                  IN  MergeLoop(a_blocks, a_postings, b_blocks, b_postings, ai + 1, bi + 1,
                                [blocks |-> Append(out.blocks,
                                                   Block(at, Len(out.postings), Len(merged))),
                                 postings |-> out.postings \o merged])
  ELSE IF ai < Len(a_blocks)
    THEN MergeLoop(a_blocks, a_postings, b_blocks, b_postings, ai + 1, bi,
                   copy_block(a_blocks[ai + 1], a_postings, out))
  ELSE IF bi < Len(b_blocks)
    THEN MergeLoop(a_blocks, a_postings, b_blocks, b_postings, ai, bi + 1,
                   copy_block(b_blocks[bi + 1], b_postings, out))
  ELSE out

\* merge_indexes: merge-join of two block tables by trigram
merge_indexes(a_blocks, a_postings, b_blocks, b_postings) ==
  MergeLoop(a_blocks, a_postings, b_blocks, b_postings, 0, 0,
            [blocks |-> << >>, postings |-> << >>])

\* a faulty rebuild_index that commits the delta buffer and leaves the
\* dirty flag set
rebuild_index_KeepFlag(eng) ==
  IF eng.temp_trigrams = << >>
    THEN [eng EXCEPT !.needs_rebuild = FALSE]
    ELSE LET sorted == sort_trigrams(eng.temp_trigrams)
             built  == build_blocks_from_sorted(sorted)
             new    == IF eng.blocks = << >>
                         THEN built
                         ELSE merge_indexes(eng.blocks, eng.postings,
                                            built.blocks, built.postings)
         IN  [eng EXCEPT !.blocks = new.blocks, !.postings = new.postings,
                         !.temp_trigrams = << >>]

\* a faulty rebuild_index that commits the delta buffer and does not empty it
rebuild_index_KeepDelta(eng) ==
  IF eng.temp_trigrams = << >>
    THEN [eng EXCEPT !.needs_rebuild = FALSE]
    ELSE LET sorted == sort_trigrams(eng.temp_trigrams)
             built  == build_blocks_from_sorted(sorted)
             new    == IF eng.blocks = << >>
                         THEN built
                         ELSE merge_indexes(eng.blocks, eng.postings,
                                            built.blocks, built.postings)
         IN  [eng EXCEPT !.blocks = new.blocks, !.postings = new.postings,
                         !.needs_rebuild = FALSE]

\* rebuild_index: commits the delta buffer of the engine: cold start when
\* there are no committed blocks, merge with the committed index otherwise
rebuild_index(eng) ==
  IF eng.temp_trigrams = << >>
    THEN [eng EXCEPT !.needs_rebuild = FALSE]
    ELSE LET sorted == sort_trigrams(eng.temp_trigrams)
             built  == build_blocks_from_sorted(sorted)
             new    == IF eng.blocks = << >>
                         THEN built
                         ELSE merge_indexes(eng.blocks, eng.postings,
                                            built.blocks, built.postings)
         IN  [eng EXCEPT !.blocks = new.blocks, !.postings = new.postings,
                         !.temp_trigrams = << >>, !.needs_rebuild = FALSE]

\* ------------------------------------------------------------------------
\* Scoring (index/scoring.rs)
\* ------------------------------------------------------------------------
RECURSIVE IsqrtSearch(_, _, _)
\* largest r in lo..hi with r * r <= n
IsqrtSearch(n, lo, hi) ==
  IF lo >= hi THEN lo
  ELSE LET mid == (lo + hi + 1) \div 2
       IN  IF mid * mid <= n THEN IsqrtSearch(n, mid, hi)
           ELSE IsqrtSearch(n, lo, mid - 1)

\* floor(100 * sqrt(n)), for n < 200000
SqrtCenti(n) == IsqrtSearch(n * 10000, 0, 46340)

\* compute_score_fast.  The f32 score match_ratio^2 * len_factor is kept in
\* fixed point, in thousandths: len_factor = 100 / (1 + sqrt(doc_len)) is
\* 10^7 / (100 + 100 sqrt(doc_len)) thousandths, and 100 for doc_len = 0.
\* A doc id without a recorded length counts as length 0 (unwrap_or(0)).
compute_score_fast(doc_lengths, doc_id, matches, query_trigrams) ==
  LET doc_len    == IF doc_id < Len(doc_lengths) THEN doc_lengths[doc_id + 1] ELSE 0
      len_factor == IF doc_len > 0 THEN 10000000 \div (100 + SqrtCenti(doc_len))
                    ELSE 100000
      qn         == IF query_trigrams > 1 THEN query_trigrams ELSE 1
  IN  (matches * matches * len_factor) \div (qn * qn)

\* ------------------------------------------------------------------------
\* Query evaluator (index/search.rs)
\* ------------------------------------------------------------------------
RECURSIVE BinarySearch(_, _, _, _)
\* binary search of the block table in the index range [lo, hi) (0-based)
BinarySearch(blocks, t, lo, hi) ==
  IF lo >= hi THEN None
  ELSE LET mid == lo + ((hi - lo) \div 2)
       IN  IF blocks[mid + 1].trigram = t THEN Some(mid)
           ELSE IF blocks[mid + 1].trigram < t THEN BinarySearch(blocks, t, mid + 1, hi)
           ELSE BinarySearch(blocks, t, lo, mid)

\* find_block: blocks.binary_search_by_key(trigram).ok()
find_block(blocks, t) == BinarySearch(blocks, t, 0, Len(blocks))

RECURSIVE ResolveLoop_OneMore(_, _, _, _)
\* a faulty resolution loop that gives the bonus to one window more
ResolveLoop_OneMore(blocks, query_bytes, i, max_trigrams) ==
  IF i >= max_trigrams THEN << >>
  ELSE LET trigram == from_bytes(query_bytes[i + 1], query_bytes[i + 2], query_bytes[i + 3])
           bonus   == IF i <= 3 THEN PREFIX_BONUS ELSE 1
           idx     == find_block(blocks, trigram)
           rest    == ResolveLoop_OneMore(blocks, query_bytes, i + 1, max_trigrams)
       IN  IF idx # None
             THEN << [offset |-> blocks[idx[1] + 1].offset,
                      len |-> blocks[idx[1] + 1].len,
                      bonus |-> bonus] >> \o rest
             ELSE rest

RECURSIVE ResolveLoop(_, _, _, _)
\* the `for i in 0..max_trigrams` loop: the QueryTrigram of every query
\* trigram that has a block, in query order, with bonus PREFIX_BONUS for
\* the window positions i < 3 and 1 for the others
ResolveLoop(blocks, query_bytes, i, max_trigrams) ==
  IF i >= max_trigrams THEN << >>
  ELSE LET trigram == from_bytes(query_bytes[i + 1], query_bytes[i + 2], query_bytes[i + 3])
           bonus   == IF i < 3 THEN PREFIX_BONUS ELSE 1
           idx     == find_block(blocks, trigram)
           rest    == ResolveLoop(blocks, query_bytes, i + 1, max_trigrams)
       IN  IF idx # None
             THEN << [offset |-> blocks[idx[1] + 1].offset,
                      len |-> blocks[idx[1] + 1].len,
                      bonus |-> bonus] >> \o rest
             ELSE rest

\* the sequence without its element at position i
Without(s, i) == SubSeq(s, 1, i - 1) \o SubSeq(s, i + 1, Len(s))

RECURSIVE Arrangements(_)
\* the orders of the entries of qts that are ascending in len: the first
\* entry is any entry of least len, the rest an order of the others
Arrangements(qts) ==
  IF qts = << >> THEN {<< >>}
  ELSE LET least == {i \in 1..Len(qts) : \A j \in 1..Len(qts) : qts[i].len <= qts[j].len}
           firsts == {qts[i] : i \in least}
       IN  UNION {LET i == CHOOSE k \in least : qts[k] = x
                  IN  {<< x >> \o r : r \in Arrangements(Without(qts, i))}
                  : x \in firsts}

\* query_trigrams.sort_unstable_by_key(|qt| qt.len): an unstable sort may
\* leave entries of equal key in any order, so every arrangement that is
\* ascending in len is a possible result
SortByLen(qts) == Arrangements(qts)

RECURSIVE Advance(_, _, _)
\* while posting_idx < postings.len() && postings[posting_idx] < doc_id
Advance(postings, posting_idx, doc_id) ==
  IF posting_idx < Len(postings) /\ postings[posting_idx + 1] < doc_id
    THEN Advance(postings, posting_idx + 1, doc_id)
    ELSE posting_idx

RECURSIVE SoftLoop(_, _, _, _, _)
SoftLoop(candidates, postings, bonus, read_idx, posting_idx) ==
  IF read_idx >= Len(candidates) THEN << >>
  ELSE LET candidate == candidates[read_idx + 1]
           pi == Advance(postings, posting_idx, candidate.doc_id)
       IN  IF pi < Len(postings) /\ postings[pi + 1] = candidate.doc_id
             THEN << [doc_id |-> candidate.doc_id, matches |-> candidate.matches + bonus] >>
                  \o SoftLoop(candidates, postings, bonus, read_idx + 1, pi + 1)
             ELSE << candidate >> \o SoftLoop(candidates, postings, bonus, read_idx + 1, pi)

RECURSIVE SoftLoop_DropMisses(_, _, _, _, _)
SoftLoop_DropMisses(candidates, postings, bonus, read_idx, posting_idx) ==
  IF read_idx >= Len(candidates) THEN << >>
  ELSE LET candidate == candidates[read_idx + 1]
           pi == Advance(postings, posting_idx, candidate.doc_id)
       IN  IF pi < Len(postings) /\ postings[pi + 1] = candidate.doc_id
             THEN << [doc_id |-> candidate.doc_id, matches |-> candidate.matches + bonus] >>
                  \o SoftLoop_DropMisses(candidates, postings, bonus, read_idx + 1, pi + 1)
             ELSE SoftLoop_DropMisses(candidates, postings, bonus, read_idx + 1, pi)

\* a faulty soft_merge that drops the candidates absent from postings
soft_merge_DropMisses(candidates, postings, bonus) ==
  SoftLoop_DropMisses(candidates, postings, bonus, 0, 0)

\* soft_merge: adds bonus to the candidates present in postings
soft_merge(candidates, postings, bonus) ==
  SoftLoop(candidates, postings, bonus, 0, 0)

RECURSIVE HardLoop(_, _, _, _, _)
\* the read loop of hard_intersect; the kept candidates are the prefix
\* candidates[..write_idx] after truncate
HardLoop(candidates, postings, bonus, read_idx, posting_idx) ==
  IF read_idx >= Len(candidates) THEN << >>
  ELSE LET candidate == candidates[read_idx + 1]
           pi == Advance(postings, posting_idx, candidate.doc_id)
       IN  IF pi < Len(postings) /\ postings[pi + 1] = candidate.doc_id
             THEN << [doc_id |-> candidate.doc_id, matches |-> candidate.matches + bonus] >>
                  \o HardLoop(candidates, postings, bonus, read_idx + 1, pi + 1)
             ELSE HardLoop(candidates, postings, bonus, read_idx + 1, pi)

\* a faulty hard_intersect that never drops a candidate
hard_intersect_KeepAll(candidates, postings, bonus) ==
  soft_merge(candidates, postings, bonus)

\* a faulty hard_intersect that keeps the right candidates without adding
\* the bonus
hard_intersect_NoBonus(candidates, postings, bonus) ==
  HardLoop(candidates, postings, 0, 0, 0)

\* hard_intersect: keeps the candidates present in postings, adding bonus
hard_intersect(candidates, postings, bonus) ==
  HardLoop(candidates, postings, bonus, 0, 0)

\* the slice postings[qt.offset .. qt.offset + qt.len]
QtPostings(postings, qt) == SubSeq(postings, qt.offset + 1, qt.offset + qt.len)

RECURSIVE HardPhase(_, _, _, _, _)
\* `for i in 1..required_end`: None when the candidate set becomes empty
\* (the early return), else the surviving candidates
HardPhase(candidates, postings, qts, i, required_end) ==
  IF i >= required_end THEN Some(candidates)
  ELSE LET next == hard_intersect(candidates, QtPostings(postings, qts[i + 1]), qts[i + 1].bonus)
       IN  IF next = << >> THEN None
           ELSE HardPhase(next, postings, qts, i + 1, required_end)

RECURSIVE SoftPhase(_, _, _, _, _)
\* `for i in required_end..total`
SoftPhase(candidates, postings, qts, i, total) ==
  IF i >= total THEN candidates
  ELSE SoftPhase(soft_merge(candidates, QtPostings(postings, qts[i + 1]), qts[i + 1].bonus),
                 postings, qts, i + 1, total)

RECURSIVE Pow2(_)
Pow2(n) == IF n = 0 THEN 1 ELSE 2 * Pow2(n - 1)

\* n / d rounded to the nearest integer, ties to the even one (the rounding
\* of f32 arithmetic)
RoundHalfEven(n, d) ==
  LET q == n \div d
      r == n % d
  IN  IF 2 * r > d \/ (2 * r = d /\ q % 2 = 1) THEN q + 1 ELSE q

RECURSIVE Normalize(_, _, _)
\* the exponent e with 2^23 <= n * 2^e / d < 2^24, for 0 < n <= d
Normalize(n, d, e) == IF 8388608 * d <= n THEN e ELSE Normalize(2 * n, d, e + 1)

\* the f32 nearest to the ratio num/den of the configuration, as
\* <<m, e>> for m * 2^-e with a mantissa m of 24 bits
f32_from(ratio) ==
  IF ratio[1] = 0 THEN << 0, 0 >>
  ELSE LET e == Normalize(ratio[1], ratio[2], 0)
       IN  << RoundHalfEven(ratio[1] * Pow2(e), ratio[2]), e >>

RECURSIVE Excess(_, _)
\* the number of bits by which p exceeds a mantissa of 24 bits
Excess(p, s) == IF p < 16777216 THEN s ELSE Excess(p \div 2, s + 1)

\* total as f32 * x, rounded to 24 bits of mantissa
f32_mul(total, x) ==
  LET p == total * x[1]
      s == Pow2(Excess(p, 0))
  IN  << RoundHalfEven(p, s) * s, x[2] >>

\* f32::ceil, as an integer
f32_ceil(x) == LET u == Pow2(x[2]) IN (x[1] + u - 1) \div u

\* ((total as f32 * min_overlap_ratio).ceil().max(1.0) as usize).min(total)
\* for the ratio num/den
RequiredEnd(total, ratio) ==
  LET c == f32_ceil(f32_mul(total, f32_from(ratio)))
      m == IF c > 1 THEN c ELSE 1
  IN  IF m < total THEN m ELSE total

RECURSIVE TakeBest(_, _)
\* the descending sequences of m results that take, at each position, one
\* of the highest-scoring results not taken yet: what an unstable selection
\* and an unstable sort by score can leave in the first m places
TakeBest(rest, m) ==
  IF m = 0 \/ rest = {} THEN {<< >>}
  ELSE UNION { {<<x>> \o r : r \in TakeBest(rest \ {x}, m - 1)}
               : x \in {y \in rest : \A z \in rest : y.score >= z.score} }

RECURSIVE ScoreLoop(_, _, _, _)
\* for candidate in &self.candidates: push SearchResult::new(doc_id, score)
ScoreLoop(doc_lengths, candidates, total, i) ==
  IF i > Len(candidates) THEN << >>
  ELSE << [doc_id |-> candidates[i].doc_id,
           score |-> compute_score_fast(doc_lengths, candidates[i].doc_id,
                                        candidates[i].matches, total)] >>
       \o ScoreLoop(doc_lengths, candidates, total, i + 1)

\* a faulty selection that truncates to the first `limit` results without
\* the nth-element step and then sorts them
TopK_TruncateOnly(scored, limit) ==
  LET n == Len(scored)
      m == IF n > limit THEN limit ELSE n
      picks == {f \in [1..m -> 1..m] :
                  /\ \A i, j \in 1..m : i # j => f[i] # f[j]
                  /\ \A i \in 1..(m - 1) : scored[f[i]].score >= scored[f[i + 1]].score}
  IN  {[i \in 1..m |-> scored[f[i]]] : f \in picks}

\* select_nth_unstable_by(limit, descending score), truncate(limit) and
\* sort_unstable_by(descending score) on the scored results.  Both calls
\* compare scores only and are unstable: which of several equal-score
\* results are kept, and their relative order, is not determined.  The
\* possible final vectors are the arrangements, descending in score, of any
\* `limit` results none of which scores below a result left out.
TopK(scored, limit) ==
  LET n == Len(scored)
      m == IF n > limit THEN limit ELSE n
  IN  TakeBest({scored[i] : i \in 1..n}, m)

\* the value a search returns without evaluating: the empty vector
EmptyOut(exit) ==
  [results |-> << >>, exit |-> exit, qts |-> << >>, required_end |-> 0,
   hard |-> << >>, scored |-> << >>]

\* the body of search after the rebuild: the set of possible outcomes.
\* An outcome holds the returned `results` and, for reference, the return
\* point (`exit`), the sorted query trigrams (`qts`), `required_end`, the
\* doc ids left by the hard phase (`hard`) and the scored candidates before
\* the selection (`scored`).
Evaluate(blocks, postings, doc_lengths, ratio, strip, query, limit) ==
  IF RLen(query) > MAX_QUERY_LENGTH THEN {EmptyOut("query_too_long")}
  ELSE LET query_bytes == Bytes(normalize_into(query, strip))
       IN
       IF Len(query_bytes) < 3 THEN {EmptyOut("short_query")}
       ELSE LET max_trigrams == IF Len(query_bytes) - 2 < MAX_QUERY_TRIGRAMS
                                  THEN Len(query_bytes) - 2 ELSE MAX_QUERY_TRIGRAMS
                resolved == ResolveLoop(blocks, query_bytes, 0, max_trigrams)
            IN
            IF resolved = << >> THEN {EmptyOut("no_trigrams")}
            ELSE UNION { LET total == Len(qts)
                             required_end == RequiredEnd(total, ratio)
                             qt0 == qts[1]
                             seed == QtPostings(postings, qt0)
                             cand0 == [i \in 1..Len(seed) |->
                                         [doc_id |-> seed[i], matches |-> qt0.bonus]]
                             hard == HardPhase(cand0, postings, qts, 1, required_end)
                         IN
                         IF qt0.len > MAX_SEED_POSTING_LIST \/ qt0.len > MAX_CANDIDATES
                           THEN {[EmptyOut("seed_too_large") EXCEPT !.qts = qts]}
                         ELSE IF hard = None
                           THEN {[EmptyOut("hard_empty") EXCEPT
                                    !.qts = qts, !.required_end = required_end]}
                         ELSE LET cands == SoftPhase(hard[1], postings, qts, required_end, total)
                                  scored == ScoreLoop(doc_lengths, cands, total, 1)
                              IN  {[results |-> r, exit |-> "done", qts |-> qts,
                                    required_end |-> required_end,
                                    hard |-> [i \in 1..Len(hard[1]) |-> hard[1][i].doc_id],
                                    scored |-> scored]
                                     : r \in TopK(scored, limit)}
                       : qts \in SortByLen(resolved) }

\* ------------------------------------------------------------------------
\* Engine facade (index/types.rs, index/api.rs, index/search.rs)
\* ------------------------------------------------------------------------
\* NormalizerConfig::default()
NormalizerConfigDefault == [strip_diacritics |-> FALSE]

\* String::with_capacity(256), the capacity of norm_buf and query_buf in a
\* new engine
BUF_CAPACITY == 256

\* Lattice::with_config: a new, empty engine; the configuration carries
\* min_overlap_ratio as the fraction <<num, den>>; norm_buf and query_buf
\* are kept as the capacity of the buffer
with_config(search_config) ==
  [blocks |-> << >>, postings |-> << >>, documents |-> ArenaNew,
   doc_lengths |-> << >>, normalizer |-> NormalizerConfigDefault,
   config |-> search_config, temp_trigrams |-> << >>, needs_rebuild |-> FALSE,
   norm_buf |-> BUF_CAPACITY, query_buf |-> BUF_CAPACITY,
   query_count |-> 0, documents_added |-> 0]

\* Lattice::len
len(eng) == ArenaLen(eng.documents)

\* Lattice::is_empty
is_empty(eng) == len(eng) = 0

\* Lattice::get
get(eng, doc_id) == ArenaGet(eng.documents, doc_id)

\* contains_invalid_controls: some byte in 0x00..=0x08, 0x0B, 0x0C,
\* 0x0E..=0x1F or 0x7F
\* a faulty control-character test that lets DEL (0x7F) through
contains_invalid_controls_NoDel(input) ==
  \E i \in 1..Len(input) : \E j \in 1..Len(input[i][1]) :
    LET b == input[i][1][j]
    IN  (b >= 0 /\ b <= 8) \/ b = 11 \/ b = 12 \/ (b >= 14 /\ b <= 31)

contains_invalid_controls(input) ==
  \E i \in 1..Len(input) : \E j \in 1..Len(input[i][1]) :
    LET b == input[i][1][j]
    IN  (b >= 0 /\ b <= 8) \/ b = 11 \/ b = 12 \/ (b >= 14 /\ b <= 31) \/ b = 127

Ok(v) == [ok |-> TRUE, id |-> v]
Err(e) == [ok |-> FALSE, err |-> e]

\* a faulty length validation that also rejects MAX_DOCUMENT_LENGTH bytes
exceeds_max_length_Inclusive(content) == RLen(content) >= MAX_DOCUMENT_LENGTH

\* the length validation of add: content.len() > MAX_DOCUMENT_LENGTH
exceeds_max_length(content) == RLen(content) > MAX_DOCUMENT_LENGTH

\* a faulty add that returns for a short document before storing it
add_DropShort(eng, content) ==
  IF exceeds_max_length(content)
    THEN [eng |-> eng, result |-> Err("TooLarge"), ub |-> FALSE]
  ELSE IF contains_invalid_controls(content)
    THEN [eng |-> eng, result |-> Err("InvalidInput"), ub |-> FALSE]
  ELSE LET norm_buf == normalize_into(content, eng.normalizer.strip_diacritics)
           buffer   == normalize_buffer(content, eng.normalizer.strip_diacritics,
                                        eng.norm_buf)
           e0       == [eng EXCEPT !.norm_buf = buffer.cap]
           doc_len  == RLen(norm_buf)
           pushed   == ArenaPush(eng.documents, norm_buf)
       IN  IF pushed.id = None
             THEN [eng |-> e0, result |-> Err("TooLarge"), ub |-> buffer.over]
           ELSE IF RLen(norm_buf) < 3
             THEN [eng |-> e0, result |-> Ok(pushed.id[1]), ub |-> buffer.over]
             ELSE LET doc_id   == pushed.id[1]
                      trigrams == extract_trigrams(Bytes(norm_buf))
                      e1 == [e0 EXCEPT !.documents = pushed.arena,
                                       !.doc_lengths = Append(@, doc_len),
                                       !.documents_added = @ + 1,
                                       !.temp_trigrams = @ \o
                                         [i \in 1..Len(trigrams) |->
                                            [trigram |-> trigrams[i], doc_id |-> doc_id]],
                                       !.needs_rebuild = TRUE]
                  IN  [eng |-> e1, result |-> Ok(doc_id), ub |-> buffer.over]

\* a faulty add that counts a document before the arena accepts it
add_CountRejected(eng, content) ==
  IF exceeds_max_length(content)
    THEN [eng |-> eng, result |-> Err("TooLarge"), ub |-> FALSE]
  ELSE IF contains_invalid_controls(content)
    THEN [eng |-> eng, result |-> Err("InvalidInput"), ub |-> FALSE]
  ELSE LET norm_buf == normalize_into(content, eng.normalizer.strip_diacritics)
           buffer   == normalize_buffer(content, eng.normalizer.strip_diacritics,
                                        eng.norm_buf)
           e0       == [eng EXCEPT !.norm_buf = buffer.cap, !.documents_added = @ + 1]
           doc_len  == RLen(norm_buf)
           pushed   == ArenaPush(eng.documents, norm_buf)
       IN  IF pushed.id = None
             THEN [eng |-> e0, result |-> Err("TooLarge"), ub |-> buffer.over]
             ELSE LET doc_id   == pushed.id[1]
                      trigrams == extract_trigrams(Bytes(norm_buf))
                      e1 == [e0 EXCEPT !.documents = pushed.arena,
                                       !.doc_lengths = Append(@, doc_len)]
                      e2 == IF RLen(norm_buf) >= 3
                              THEN [e1 EXCEPT
                                      !.temp_trigrams = @ \o
                                         [i \in 1..Len(trigrams) |->
                                            [trigram |-> trigrams[i], doc_id |-> doc_id]],
                                      !.needs_rebuild = TRUE]
                              ELSE e1
                  IN  [eng |-> e2, result |-> Ok(doc_id), ub |-> buffer.over]

\* Lattice::add: the engine after the call and the returned Result
add(eng, content) ==
  IF exceeds_max_length(content)
    THEN [eng |-> eng, result |-> Err("TooLarge"), ub |-> FALSE]
  ELSE IF contains_invalid_controls(content)
    THEN [eng |-> eng, result |-> Err("InvalidInput"), ub |-> FALSE]
  ELSE LET norm_buf == normalize_into(content, eng.normalizer.strip_diacritics)
           buffer   == normalize_buffer(content, eng.normalizer.strip_diacritics,
                                        eng.norm_buf)
           e0       == [eng EXCEPT !.norm_buf = buffer.cap]
           doc_len  == RLen(norm_buf)
           pushed   == ArenaPush(eng.documents, norm_buf)
       IN  IF pushed.id = None
             THEN [eng |-> e0, result |-> Err("TooLarge"), ub |-> buffer.over]
             ELSE LET doc_id   == pushed.id[1]
                      trigrams == extract_trigrams(Bytes(norm_buf))
                      e1 == [e0 EXCEPT !.documents = pushed.arena,
                                       !.doc_lengths = Append(@, doc_len),
                                       !.documents_added = @ + 1]
                      e2 == IF RLen(norm_buf) >= 3
                              THEN [e1 EXCEPT
                                      !.temp_trigrams = @ \o
                                         [i \in 1..Len(trigrams) |->
                                            [trigram |-> trigrams[i], doc_id |-> doc_id]],
                                      !.needs_rebuild = TRUE]
                              ELSE e1
                  IN  [eng |-> e2, result |-> Ok(doc_id), ub |-> buffer.over]

\* query_buf after search has normalized the query into it: a query longer
\* than MAX_QUERY_LENGTH is turned away before it is normalized
query_buffer(eng, query) ==
  IF RLen(query) > MAX_QUERY_LENGTH THEN [cap |-> eng.query_buf, over |-> FALSE]
  ELSE normalize_buffer(query, eng.normalizer.strip_diacritics, eng.query_buf)

\* a faulty search that counts the query only after the early return
search_CountLate(eng, query, limit) ==
  IF is_empty(eng) \/ limit = 0
    THEN {[eng |-> eng, out |-> EmptyOut("empty_or_limit_zero"), ub |-> FALSE]}
    ELSE LET e1 == [eng EXCEPT !.query_count = @ + 1]
             e2 == IF e1.needs_rebuild THEN rebuild_index(e1) ELSE e1
             buffer == query_buffer(e2, query)
             e3 == [e2 EXCEPT !.query_buf = buffer.cap]
         IN  {[eng |-> e3, out |-> o, ub |-> buffer.over] :
                o \in Evaluate(e3.blocks, e3.postings, e3.doc_lengths,
                               e3.config.min_overlap_ratio,
                               e3.normalizer.strip_diacritics, query, limit)}

\* Lattice::search: the possible pairs of engine after the call and outcome
search(eng, query, limit) ==
  LET e1 == [eng EXCEPT !.query_count = @ + 1]
  IN  IF is_empty(e1) \/ limit = 0
        THEN {[eng |-> e1, out |-> EmptyOut("empty_or_limit_zero"), ub |-> FALSE]}
        ELSE LET e2 == IF e1.needs_rebuild THEN rebuild_index(e1) ELSE e1
                 buffer == query_buffer(e2, query)
                 e3 == [e2 EXCEPT !.query_buf = buffer.cap]
             IN  {[eng |-> e3, out |-> o, ub |-> buffer.over] :
                    o \in Evaluate(e3.blocks, e3.postings, e3.doc_lengths,
                                   e3.config.min_overlap_ratio,
                                   e3.normalizer.strip_diacritics, query, limit)}

\* a faulty clear that leaves the delta buffer as it is
clear_KeepDelta(eng) ==
  [eng EXCEPT !.blocks = << >>, !.postings = << >>,
              !.documents = ArenaClear(@), !.doc_lengths = << >>,
              !.needs_rebuild = FALSE,
              !.query_count = 0, !.documents_added = 0]

\* a faulty clear that leaves the two counters as they are
clear_KeepCounters(eng) ==
  [eng EXCEPT !.blocks = << >>, !.postings = << >>,
              !.documents = ArenaClear(@), !.doc_lengths = << >>,
              !.temp_trigrams = << >>, !.needs_rebuild = FALSE]

\* Lattice::clear
clear(eng) ==
  [eng EXCEPT !.blocks = << >>, !.postings = << >>,
              !.documents = ArenaClear(@), !.doc_lengths = << >>,
              !.temp_trigrams = << >>, !.needs_rebuild = FALSE,
              !.query_count = 0, !.documents_added = 0]

\* Lattice::metrics
metrics(eng) ==
  [documents_indexed |-> eng.documents_added,
   queries_executed |-> eng.query_count,
   current_doc_count |-> ArenaLen(eng.documents)]

\* ------------------------------------------------------------------------
\* Compression (lattice-types, mod compression)
\* ------------------------------------------------------------------------
\* A u32 is kept as the pair <<hi, lo>> of its 16-bit halves.
u32_lt(a, b) == a[1] < b[1] \/ (a[1] = b[1] /\ a[2] < b[2])

\* a - b on u32 (modulo 2^32)
u32_sub(a, b) ==
  LET borrow == IF a[2] < b[2] THEN 1 ELSE 0
  IN  << (a[1] - b[1] - borrow + 65536) % 65536, (a[2] - b[2] + 65536) % 65536 >>

\* a + b on u32 (modulo 2^32)
u32_add(a, b) ==
  LET carry == (a[2] + b[2]) \div 65536
  IN  << (a[1] + b[1] + carry) % 65536, (a[2] + b[2]) % 65536 >>

\* value >> 7
u32_shr7(v) == << v[1] \div 128, (v[2] \div 128) + (v[1] % 128) * 512 >>

\* (value as u32) << shift for a 7-bit value and the shifts of decode_varint;
\* the bits shifted beyond bit 31 are lost
u32_shl(value, shift) ==
  CASE shift = 0  -> << 0, value >>
    [] shift = 7  -> << 0, value * 128 >>
    [] shift = 14 -> << value \div 4, (value % 4) * 16384 >>
    [] shift = 21 -> << value * 32, 0 >>
    [] shift = 28 -> << (value % 16) * 4096, 0 >>

\* is the slice non-decreasing (the check of delta_encode)
RECURSIVE IsSorted(_)
IsSorted(input) ==
  IF Len(input) < 2 THEN TRUE
  ELSE ~ u32_lt(input[2], input[1]) /\ IsSorted(Tail(input))

\* delta_encode: the result and the output vector after the call
delta_encode(input, output) ==
  IF input = << >> THEN [ok |-> TRUE, output |-> output]
  ELSE IF ~ IsSorted(input) THEN [ok |-> FALSE, error |-> "NotSorted", output |-> output]
  ELSE [ok |-> TRUE,
        output |-> [i \in 1..Len(input) |->
                      IF i = 1 THEN input[1] ELSE u32_sub(input[i], input[i - 1])]]

RECURSIVE Accumulate(_, _)
\* the loop of delta_decode: out is the output so far, rest the deltas left
Accumulate(out, rest) ==
  IF rest = << >> THEN out
  ELSE Accumulate(Append(out, u32_add(out[Len(out)], Head(rest))), Tail(rest))

\* delta_decode: the result and the output vector after the call
delta_decode(input, output) ==
  IF input = << >> THEN [ok |-> TRUE, output |-> output]
  ELSE [ok |-> TRUE, output |-> Accumulate(<< input[1] >>, Tail(input))]

RECURSIVE encode_varint(_)
\* encode_varint: the bytes written for value
encode_varint(value) ==
  IF value[1] > 0 \/ value[2] >= 128
    THEN << (value[2] % 128) + 128 >> \o encode_varint(u32_shr7(value))
    ELSE << value[2] >>

RECURSIVE DecodeLoop(_, _, _, _)
\* the loop of decode_varint from byte i (counted from 0) of buf
DecodeLoop(buf, i, shift, result) ==
  IF i >= Len(buf) THEN [ok |-> FALSE, error |-> "BufferTooSmall"]
  ELSE IF shift >= 32 THEN [ok |-> FALSE, error |-> "InvalidVarint"]
  ELSE LET byte == buf[i + 1]
           next == u32_add(result, u32_shl(byte % 128, shift))
       IN  IF byte < 128 THEN [ok |-> TRUE, value |-> next, read |-> i + 1]
           ELSE DecodeLoop(buf, i + 1, shift + 7, next)

\* decode_varint: the value and the number of bytes read, or the error
decode_varint(buf) == DecodeLoop(buf, 0, 0, << 0, 0 >>)

RECURSIVE EncodeAll(_)
\* the varints of the deltas, one after the other
EncodeAll(deltas) ==
  IF deltas = << >> THEN << >>
  ELSE encode_varint(Head(deltas)) \o EncodeAll(Tail(deltas))

\* compress_sorted: the result and the output vector after the call
compress_sorted(input, output) ==
  IF input = << >> THEN [result |-> [ok |-> TRUE, written |-> 0], output |-> output]
  ELSE LET deltas == delta_encode(input, << >>)
       IN  IF ~ deltas.ok
             THEN [result |-> [ok |-> FALSE, error |-> deltas.error],
                   output |-> output]
             ELSE LET bytes == EncodeAll(deltas.output)
                  IN  [result |-> [ok |-> TRUE, written |-> Len(bytes)],
                       output |-> bytes]

RECURSIVE DecodeAll(_, _)
\* the loop of decompress_sorted: the deltas decoded from input, or the
\* error of decode_varint
DecodeAll(input, deltas) ==
  IF input = << >> THEN [ok |-> TRUE, deltas |-> deltas]
  ELSE LET d == decode_varint(input)
       IN  IF ~ d.ok THEN d
           ELSE DecodeAll(SubSeq(input, d.read + 1, Len(input)),
                          Append(deltas, d.value))

\* decompress_sorted: the result and the output vector after the call
decompress_sorted(input, output) ==
  IF input = << >> THEN [result |-> [ok |-> TRUE], output |-> output]
  ELSE LET d == DecodeAll(input, << >>)
       IN  IF ~ d.ok THEN [result |-> d, output |-> output]
           ELSE [result |-> [ok |-> TRUE],
                 output |-> delta_decode(d.deltas, output).output]

\* ------------------------------------------------------------------------
\* Inputs of the model
\* ------------------------------------------------------------------------
\* documents offered to add:
\*   "ab" followed by 65533 spaces (65535 bytes), "aabb", "AAAAB",
\*   "a\x07b",
\*   "ab" followed by 65534 spaces (65536 bytes),
\*   30000 times U+0130 (60000 bytes, 90000 bytes once lowercased)
Contents ==
  { Str(<<97, 98>>) \o << << <<32>>, 65533 >> >>,
    Str(<<97, 97, 98, 98>>), Str(<<65, 65, 65, 65, 66>>),
    Str(<<97, 7, 98>>),
    Str(<<97, 98>>) \o << << <<32>>, 65534 >> >>,
    << << <<196, 176>>, 30000 >> >> }

\* queries: "aab", "aaabb", "ab",
\*   "aab" followed by 998 spaces (1001 bytes)
Queries ==
  { Str(<<97, 97, 98>>), Str(<<97, 97, 97, 98, 98>>), Str(<<97, 98>>),
    Str(<<97, 97, 98>>) \o << << <<32>>, 998 >> >> }

\* result limits passed to search
Limits == {0, 1, MaxAdds}

\* min_overlap_ratio: 0.3 (the default) and 1.0
Ratios == { <<3, 10>>, <<1, 1>> }

\* ------------------------------------------------------------------------
\* State
\* ------------------------------------------------------------------------
VARIABLES blocks, postings, documents, doc_lengths, normalizer, config,
          temp_trigrams, needs_rebuild, norm_buf, query_buf, query_count,
          documents_added, ret, issued, added, searched, twin, twin_ret,
          compressed, decompressed

\* ret:    the last call and what it returned
\* issued: the ids returned by the successful adds since construction
\* added:  the contents of the successful adds since the last clear
\* searched: the number of search calls since construction or the last clear
\* twin:   a second engine, constructed with the same configuration
\* twin_ret: the last call on the second engine and what it returned
\* compressed, decompressed: the output vectors (Vec<u8>, Vec<u32>) a caller
\*         of compress_sorted and decompress_sorted passes to them
vars == << blocks, postings, documents, doc_lengths, normalizer, config,
           temp_trigrams, needs_rebuild, norm_buf, query_buf, query_count,
           documents_added, ret, issued, added, searched, twin, twin_ret,
           compressed, decompressed >>

\* the engine value
Eng ==
  [blocks |-> blocks, postings |-> postings, documents |-> documents,
   doc_lengths |-> doc_lengths, normalizer |-> normalizer, config |-> config,
   temp_trigrams |-> temp_trigrams, needs_rebuild |-> needs_rebuild,
   norm_buf |-> norm_buf, query_buf |-> query_buf,
   query_count |-> query_count, documents_added |-> documents_added]

SetEng(e) ==
  /\ blocks' = e.blocks
  /\ postings' = e.postings
  /\ documents' = e.documents
  /\ doc_lengths' = e.doc_lengths
  /\ normalizer' = e.normalizer
  /\ config' = e.config
  /\ temp_trigrams' = e.temp_trigrams
  /\ needs_rebuild' = e.needs_rebuild
  /\ norm_buf' = e.norm_buf
  /\ query_buf' = e.query_buf
  /\ query_count' = e.query_count
  /\ documents_added' = e.documents_added

\* a new engine (and a second one) with a configuration of one of `ratios`
InitWith(ratios) ==
  /\ \E r \in ratios :
       LET e == with_config([min_overlap_ratio |-> r])
       IN  /\ blocks = e.blocks
           /\ postings = e.postings
           /\ documents = e.documents
           /\ doc_lengths = e.doc_lengths
           /\ normalizer = e.normalizer
           /\ config = e.config
           /\ temp_trigrams = e.temp_trigrams
           /\ needs_rebuild = e.needs_rebuild
           /\ norm_buf = e.norm_buf
           /\ query_buf = e.query_buf
           /\ query_count = e.query_count
           /\ documents_added = e.documents_added
  /\ ret = [op |-> "new"]
  /\ issued = << >>
  /\ added = << >>
  /\ searched = 0
  /\ twin = with_config(config)
  /\ twin_ret = [op |-> "new"]
  /\ compressed = << >>
  /\ decompressed = << >>

Init == InitWith(Ratios)

\* the three-byte documents "a", b, "c" for every ASCII byte b
ByteDocs == {Str(<<97, b, 99>>) : b \in 0..127}

\* the process is running: no call has ended it
Running == ret.op # "crash"

\* what a call with undefined behaviour can come to: the build either goes
\* on with the bytes it wrote ("return") or the process ends in the call
\* ("crash")
UbOutcomes == {"return", "crash"}

\* what a call can come to: a call that wrote past the end of its buffer
\* has undefined behaviour, every other call returns
Outcomes(ub) == IF ub THEN UbOutcomes ELSE {"return"}

\* the call add(content) of the engine, r being what add computes
AddStep(content, r, outcome) ==
  IF outcome = "crash"
    THEN /\ ret' = [op |-> "crash", call |-> "add", content |-> content]
         /\ UNCHANGED << blocks, postings, documents, doc_lengths, normalizer,
                         config, temp_trigrams, needs_rebuild, norm_buf,
                         query_buf, query_count, documents_added, issued, added,
                         searched >>
    ELSE /\ SetEng(r.eng)
         /\ ret' = [op |-> "add", content |-> content, result |-> r.result]
         /\ issued' = IF r.result.ok THEN Append(issued, r.result.id) ELSE issued
         /\ added' = IF r.result.ok THEN Append(added, content) ELSE added
         /\ UNCHANGED searched

\* a call of add with one of `contents`
AddWith(contents) ==
  /\ Running
  /\ \E content \in contents :
       LET r == add(Eng, content)
       IN  \E outcome \in Outcomes(r.ub) : AddStep(content, r, outcome)
  /\ UNCHANGED << twin, twin_ret, compressed, decompressed >>

\* a call of add on an empty engine with one of the ByteDocs
AddByte ==
  /\ is_empty(Eng)
  /\ AddWith(ByteDocs)

\* a call of add
Add ==
  /\ Len(issued) < MaxAdds
  /\ AddWith(Contents)

\* the path the call search(_, limit) takes through rebuild_index from the
\* engine eng: "none" when search returns before it or the index is clean
RebuildPath(eng, limit) ==
  IF is_empty(eng) \/ limit = 0 \/ ~eng.needs_rebuild THEN "none"
  ELSE IF eng.temp_trigrams = << >> THEN "empty_delta"
  ELSE IF eng.blocks = << >> THEN "cold"
  ELSE "merge"

\* the call search(query, limit) of the engine, r being one of the outcomes
\* search computes
SearchStep(query, limit, r, outcome) ==
  IF outcome = "crash"
    THEN /\ ret' = [op |-> "crash", call |-> "search", query |-> query,
                    limit |-> limit]
         /\ UNCHANGED << blocks, postings, documents, doc_lengths, normalizer,
                         config, temp_trigrams, needs_rebuild, norm_buf,
                         query_buf, query_count, documents_added, issued, added,
                         searched >>
    ELSE /\ SetEng(r.eng)
         /\ ret' = [op |-> "search", query |-> query, limit |-> limit,
                    out |-> r.out, rebuild |-> RebuildPath(Eng, limit)]
         /\ searched' = searched + 1
         /\ UNCHANGED << issued, added >>

\* a call of search with a query of `queries` and a limit of `limits`
SearchWith(queries, limits) ==
  /\ Running
  /\ query_count < MaxQueries
  /\ \E query \in queries, limit \in limits :
       \E r \in search(Eng, query, limit) :
         \E outcome \in Outcomes(r.ub) : SearchStep(query, limit, r, outcome)
  /\ UNCHANGED << twin, twin_ret, compressed, decompressed >>

\* the call clear() of the engine
ClearStep ==
  /\ SetEng(clear(Eng))
  /\ ret' = [op |-> "clear"]
  /\ added' = << >>
  /\ searched' = 0
  /\ UNCHANGED issued

\* a call of clear
Clear ==
  /\ Running
  /\ ClearStep
  /\ UNCHANGED << twin, twin_ret, compressed, decompressed >>

\* a call of search
Search == SearchWith(Queries, Limits)

Next == Add \/ Search \/ Clear

Spec == Init /\ [][Next]_vars

NextBytes == AddByte

\* a new engine under adds of the ByteDocs, up to the first accepted one
ByteSpec == Init /\ [][NextBytes]_vars

\* a call of search("aab", limit) with limit 0 or 1.  What search does to the
\* index (the commit of the delta buffer) depends on limit being 0 or not and
\* not on the query, so these two calls stand for every search when only the
\* index is looked at.
Probe == SearchWith({Str(<<97, 97, 98>>)}, {0, 1})

NextIndex == Add \/ Probe \/ Clear

\* the engine under every add and clear, with searches reduced to Probe
IndexSpec == Init /\ [][NextIndex]_vars

\* a text that grows under normalization after its size was reserved:
\* 57 times U+0130 followed by 113 times "a" (227 bytes).  U+0130 (2 bytes)
\* lowercases to "i" and U+0307 (3 bytes), so the normalized text has 284
\* bytes where 227 + 227 / 8 = 255 were reserved.
Expanding == << << <<196, 176>>, 57 >>, << <<97>>, 113 >> >>

\* a call of add("aabb")
AddPlain ==
  /\ Len(issued) < MaxAdds
  /\ AddWith({Str(<<97, 97, 98, 98>>)})

\* a call of search with "aab" or the Expanding text
SearchExpanding == SearchWith({Expanding, Str(<<97, 97, 98>>)}, {0, 1})

NextExpanding == AddPlain \/ SearchExpanding \/ Clear

\* the engine under adds of "aabb" and searches whose query grows under
\* normalization
ExpandingSpec == Init /\ [][NextExpanding]_vars

\* both engines are running
BothRunning == Running /\ twin_ret.op # "crash"

\* the two engines run the same build: its sorts (sort_unstable_by_key,
\* select_nth_unstable_by, sort_unstable_by) are functions of the slice they
\* are given, so two calls that sort the same query trigrams, or rank the
\* same scored candidates, leave them in the same order
SameBuild(r1, r2) ==
  /\ r1.eng.blocks = r2.eng.blocks => r1.out.qts = r2.out.qts
  /\ r1.out.scored = r2.out.scored => r1.out.results = r2.out.results

\* the same call of add on both engines: "aabb" or "AAAAB"
PairAdd ==
  /\ BothRunning
  /\ Len(issued) < MaxAdds
  /\ \E content \in {Str(<<97, 97, 98, 98>>), Str(<<65, 65, 65, 65, 66>>)} :
       LET r1 == add(Eng, content)
           r2 == add(twin, content)
       IN  \E o1 \in Outcomes(r1.ub), o2 \in Outcomes(r2.ub) :
             /\ AddStep(content, r1, o1)
             /\ twin' = IF o2 = "crash" THEN twin ELSE r2.eng
             /\ twin_ret' = IF o2 = "crash"
                              THEN [op |-> "crash", call |-> "add",
                                    content |-> content]
                              ELSE [op |-> "add", content |-> content,
                                    result |-> r2.result]
  /\ UNCHANGED << compressed, decompressed >>

\* the same call of search on both engines: "aab" or the Expanding text
PairSearch ==
  /\ BothRunning
  /\ query_count < MaxQueries
  /\ \E query \in {Expanding, Str(<<97, 97, 98>>)}, limit \in {1, MaxAdds} :
       \E r1 \in search(Eng, query, limit), r2 \in search(twin, query, limit) :
         /\ SameBuild(r1, r2)
         /\ \E o1 \in Outcomes(r1.ub), o2 \in Outcomes(r2.ub) :
              /\ SearchStep(query, limit, r1, o1)
              /\ twin' = IF o2 = "crash" THEN twin ELSE r2.eng
              /\ twin_ret' = IF o2 = "crash"
                               THEN [op |-> "crash", call |-> "search",
                                     query |-> query, limit |-> limit]
                               ELSE [op |-> "search", query |-> query,
                                     limit |-> limit, out |-> r2.out,
                                     rebuild |-> RebuildPath(twin, limit)]
  /\ UNCHANGED << compressed, decompressed >>

\* the same call of clear on both engines
PairClear ==
  /\ BothRunning
  /\ ClearStep
  /\ twin' = clear(twin)
  /\ twin_ret' = [op |-> "clear"]
  /\ UNCHANGED << compressed, decompressed >>

\* the longest sequence given to compress_sorted
MaxLen == 2

\* u32 values at the varint boundaries: 0, 127, 128, 2^28 and u32::MAX
U32Values == { <<0, 0>>, <<0, 127>>, <<0, 128>>, <<4096, 0>>, <<65535, 65535>> }

\* the sequences of at most MaxLen of these values
U32Seqs == UNION { [1..n -> U32Values] : n \in 0..MaxLen }

\* compress_sorted(input, &mut compressed) for one of the sequences
CompressSorted ==
  /\ \E input \in U32Seqs :
       LET r == compress_sorted(input, compressed)
       IN  /\ compressed' = r.output
           /\ ret' = [op |-> "compress_sorted", input |-> input,
                      result |-> r.result]
  /\ UNCHANGED << blocks, postings, documents, doc_lengths, normalizer, config,
                  temp_trigrams, needs_rebuild, norm_buf, query_buf, query_count,
                  documents_added, issued, added, searched, twin, twin_ret,
                  decompressed >>

\* decompress_sorted(&compressed, &mut decompressed), called after a
\* compress_sorted that returned Ok
DecompressSorted ==
  /\ ret.op = "compress_sorted" /\ ret.result.ok
  /\ LET r == decompress_sorted(compressed, decompressed)
     IN  /\ decompressed' = r.output
         /\ ret' = [op |-> "decompress_sorted", input |-> ret.input,
                    result |-> r.result]
  /\ UNCHANGED << blocks, postings, documents, doc_lengths, normalizer, config,
                  temp_trigrams, needs_rebuild, norm_buf, query_buf, query_count,
                  documents_added, issued, added, searched, twin, twin_ret,
                  compressed >>

\* a call of add("aabb") or add("AAAAB")
AddSmall ==
  /\ Len(issued) < MaxAdds
  /\ AddWith({Str(<<97, 97, 98, 98>>), Str(<<65, 65, 65, 65, 66>>)})

\* a call of search with "aaaabb" or "aaaaab", queries of four and more
\* trigrams
SearchPrefix ==
  SearchWith({Str(<<97, 97, 97, 97, 97, 98>>), Str(<<97, 97, 97, 97, 98, 98>>)},
             {1, MaxAdds})

NextPrefix == AddSmall \/ SearchPrefix \/ Clear

\* the engine under searches whose queries have more than three trigrams
PrefixSpec == Init /\ [][NextPrefix]_vars

\* min_overlap_ratio over its range: 0, 0.3, 0.5, 0.6 and 1
OverlapRatios == { <<0, 1>>, <<3, 10>>, <<1, 2>>, <<3, 5>>, <<1, 1>> }

\* the computation of required_end in search for `total` retained query
\* trigrams, 1 <= total <= MAX_QUERY_TRIGRAMS, under the configured ratio
ComputeRequired ==
  /\ \E total \in 1..MAX_QUERY_TRIGRAMS :
       ret' = [op |-> "required_end", total |-> total,
               required_end |-> RequiredEnd(total, config.min_overlap_ratio)]
  /\ UNCHANGED << blocks, postings, documents, doc_lengths, normalizer, config,
                  temp_trigrams, needs_rebuild, norm_buf, query_buf, query_count,
                  documents_added, issued, added, searched, twin, twin_ret,
                  compressed, decompressed >>

NextRequired == ComputeRequired

\* required_end for every number of retained trigrams and every ratio of
\* OverlapRatios
RequiredSpec == InitWith(OverlapRatios) /\ [][NextRequired]_vars

\* the longest text given to normalize, in runs
MaxRuns == 3

\* the characters of the texts given to normalize: ' ', tab, 'A', U+0130,
\* U+00C9 and the combining mark U+0301
NormUnits == { <<32>>, <<9>>, <<65>>, <<196, 176>>, <<195, 137>>, <<204, 129>> }

\* the texts of at most MaxRuns runs of one or two of these characters
NormTexts == UNION { [1..n -> NormUnits \X {1, 2}] : n \in 0..MaxRuns }

\* once = normalize(input) with a normalizer of either configuration
NormalizeOnce ==
  /\ ret.op = "new"
  /\ \E input \in NormTexts, strip \in BOOLEAN :
       LET r == normalize(input, strip)
       IN  \E outcome \in Outcomes(r.ub) :
             ret' = IF outcome = "crash"
                      THEN [op |-> "crash", call |-> "normalize", input |-> input,
                            strip |-> strip]
                      ELSE [op |-> "normalize", input |-> input, strip |-> strip,
                            once |-> r.out]
  /\ UNCHANGED << blocks, postings, documents, doc_lengths, normalizer, config,
                  temp_trigrams, needs_rebuild, norm_buf, query_buf, query_count,
                  documents_added, issued, added, searched, twin, twin_ret,
                  compressed, decompressed >>

\* twice = normalize(&once) with the same normalizer
NormalizeTwice ==
  /\ ret.op = "normalize"
  /\ LET r == normalize(Chars(ret.once), ret.strip)
     IN  \E outcome \in Outcomes(r.ub) :
           ret' = IF outcome = "crash"
                    THEN [op |-> "crash", call |-> "normalize",
                          input |-> Chars(ret.once), strip |-> ret.strip]
                    ELSE [op |-> "normalize_twice", input |-> ret.input,
                          strip |-> ret.strip, once |-> ret.once, twice |-> r.out]
  /\ UNCHANGED << blocks, postings, documents, doc_lengths, normalizer, config,
                  temp_trigrams, needs_rebuild, norm_buf, query_buf, query_count,
                  documents_added, issued, added, searched, twin, twin_ret,
                  compressed, decompressed >>

NextNorm == NormalizeOnce \/ NormalizeTwice

\* normalize applied to a text and again to its own output
NormSpec == Init /\ [][NextNorm]_vars

NextCodec == CompressSorted \/ DecompressSorted

\* a caller that compresses sequences into one vector and decompresses them
\* into another, both vectors kept from call to call
CodecSpec == Init /\ [][NextCodec]_vars

NextPair == PairAdd \/ PairSearch \/ PairClear

\* two engines with the same configuration under the same sequence of calls
PairSpec == Init /\ [][NextPair]_vars

\* ------------------------------------------------------------------------
\* Properties
\* ------------------------------------------------------------------------
\* the strip_diacritics setting of the engine's normalizer
Strip == normalizer.strip_diacritics

\* the normalized bytes of the d-th document added since the last clear
StoredBytes(d) == Bytes(normalize_into(added[d + 1], Strip))

\* the set of trigrams in the sliding 3-byte window over a byte string
Windows(bytes) ==
  {bytes[i] * 65536 + bytes[i + 1] * 256 + bytes[i + 2] : i \in 1..(Len(bytes) - 2)}

\* the elements of a sequence
Range(seq) == {seq[i] : i \in 1..Len(seq)}

\* C1 as stated: every successful add returns the number of documents
\* stored before it, and the ids handed out since construction are
\* 0, 1, 2, ... without gaps or repeats.
C1_IdsSinceConstruction ==
  /\ (ret.op = "add" /\ ret.result.ok) => ret.result.id = len(Eng) - 1
  /\ \A i \in 1..Len(issued) : issued[i] = i - 1

\* C1 amended: every successful add returns the number of documents stored
\* before it, so the ids handed out since construction or the last clear
\* are 0, 1, 2, ... without gaps or repeats (clear restarts the numbering
\* at 0), and an add that returns an error consumes no id.
C1_IdsSinceClear ==
  /\ (ret.op = "add" /\ ret.result.ok) => ret.result.id = len(Eng) - 1
  /\ Len(added) = len(Eng)
  /\ Len(added) <= Len(issued)
  /\ \A i \in 1..Len(added) : issued[Len(issued) - Len(added) + i] = i - 1

\* an add returned id 1 after an earlier document had been cleared away
C1_Witness ==
  /\ ret.op = "add" /\ ret.result.ok /\ ret.result.id = 1
  /\ Len(issued) = 3

\* C2: get(d) returns the normalized bytes of the d-th document added since
\* the last clear for every d < len(), and None for every d >= len().
C2_GetReturnsStored ==
  \A d \in 0..(MaxAdds + 1) :
    IF d < len(Eng) THEN get(Eng, d) = Some(StoredBytes(d))
    ELSE get(Eng, d) = None

\* two different documents are stored after an earlier one was cleared, and
\* a search has run since
C2_Witness ==
  /\ ret.op = "search"
  /\ Len(issued) > Len(added) /\ len(Eng) = 2
  /\ get(Eng, 0) # get(Eng, 1)
  /\ get(Eng, 1) = Some(<<97, 97, 97, 97, 98>>)

\* C3: every committed posting list is strictly ascending in doc id and the
\* block table is strictly ascending by trigram.
C3_Sorted ==
  /\ \A i \in 1..(Len(blocks) - 1) : blocks[i].trigram < blocks[i + 1].trigram
  /\ \A i \in 1..Len(blocks) :
       LET p == block_postings(blocks[i], postings)
       IN  \A j \in 1..(Len(p) - 1) : p[j] < p[j + 1]

\* an incremental merge has committed a document in which a trigram occurs
\* twice ("aaaab"), next to a posting list of two documents
C3_Witness ==
  /\ ret.op = "search" /\ ret.rebuild = "merge"
  /\ \E d \in 0..(len(Eng) - 1) : get(Eng, d) = Some(<<97, 97, 97, 97, 98>>)
  /\ \E i \in 1..Len(blocks) : blocks[i].len >= 2

\* d is in the posting list of the block of trigram t
InPostings(t, d) ==
  \E i \in 1..Len(blocks) :
    blocks[i].trigram = t /\ d \in Range(block_postings(blocks[i], postings))

\* the trigrams the property is evaluated for: those of the block table, of
\* the stored documents and all trigrams over the bytes 'a', 'b'
TrigramUniverse ==
  {blocks[i].trigram : i \in 1..Len(blocks)}
    \cup UNION {Windows(StoredBytes(d)) : d \in 0..(Len(added) - 1)}
    \cup {x * 65536 + y * 256 + z : x, y, z \in {97, 98}}

\* C4: when the delta buffer is empty, d is in the posting list of t's block
\* if and only if t occurs in the 3-byte window over d's normalized bytes,
\* and a trigram has a block iff some stored document contains it.
C4_PostingsMatchWindows ==
  temp_trigrams = << >> =>
    \A t \in TrigramUniverse :
      /\ \A d \in 0..(len(Eng) - 1) :
           InPostings(t, d) <=> t \in Windows(StoredBytes(d))
      /\ (\E i \in 1..Len(blocks) : blocks[i].trigram = t)
           <=> (\E d \in 0..(len(Eng) - 1) : t \in Windows(StoredBytes(d)))

\* three documents are committed, the last ones by an incremental merge
C4_Witness ==
  /\ temp_trigrams = << >> /\ len(Eng) = 3
  /\ ret.op = "search" /\ ret.rebuild = "merge"
  /\ \E i \in 1..Len(blocks) : blocks[i].len >= 2

\* the normalized bytes of the query of the last search
QueryBytes == Bytes(normalize_into(ret.query, Strip))

\* the trigrams search extracts from the query: the first
\* min(n - 2, MAX_QUERY_TRIGRAMS) windows, in order
QueryTrigrams ==
  LET n == Len(QueryBytes)
      m == IF n - 2 < MAX_QUERY_TRIGRAMS THEN n - 2 ELSE MAX_QUERY_TRIGRAMS
  IN  [i \in 1..m |-> QueryBytes[i] * 65536 + QueryBytes[i + 1] * 256 + QueryBytes[i + 2]]

HasBlock(t) == \E i \in 1..Len(blocks) : blocks[i].trigram = t

\* k: the number of query trigrams that exist in the index
RetainedCount == Cardinality({i \in 1..Len(QueryTrigrams) : HasBlock(QueryTrigrams[i])})

\* ceil(k * min_overlap_ratio)
CeilRatio(k) ==
  (k * config.min_overlap_ratio[1] + config.min_overlap_ratio[2] - 1)
    \div config.min_overlap_ratio[2]

\* the number of (retained) query trigrams document d contains
SharedCount(d) ==
  Cardinality({i \in 1..Len(QueryTrigrams) :
                 QueryTrigrams[i] \in Windows(StoredBytes(d))})

SortedTrigram(i) ==
  (CHOOSE b \in Range(blocks) : b.offset = ret.out.qts[i].offset).trigram

C6_ScoreThenDocId ==
  ret.op = "search" =>
    \A i \in 1..(Len(ret.out.results) - 1) :
      LET a == ret.out.results[i]
          b == ret.out.results[i + 1]
      IN  a.score > b.score \/ (a.score = b.score /\ a.doc_id < b.doc_id)

\* C7: search returns exactly min(limit, c) results, c the number of
\* candidates left by the hard phase, each doc id at most once, and no
\* candidate left out scores strictly higher than a returned one.
C7_TopLimit ==
  ret.op = "search" =>
    LET res == ret.out.results
        c   == Len(ret.out.hard)
    IN  /\ Len(res) = (IF ret.limit < c THEN ret.limit ELSE c)
        /\ \A i, j \in 1..Len(res) : i # j => res[i].doc_id # res[j].doc_id
        /\ \A i \in 1..Len(res) : res[i] \in Range(ret.out.scored)
        /\ Range([i \in 1..Len(ret.out.scored) |-> ret.out.scored[i].doc_id])
             = Range(ret.out.hard)
        /\ \A x \in Range(ret.out.scored) :
             x \notin Range(res) => \A i \in 1..Len(res) : x.score <= res[i].score

\* limit 1 cut two candidates of different score down to the better one,
\* which is not the first in doc-id order
C7_Witness ==
  /\ ret.op = "search" /\ ret.limit = 1
  /\ Len(ret.out.hard) = 2 /\ Len(ret.out.results) = 1
  /\ ret.out.scored[1].score < ret.out.scored[2].score
  /\ ret.out.results[1] = ret.out.scored[2]

RECURSIVE AddAll(_, _)
\* the engine after adding the contents in order
AddAll(eng, contents) ==
  IF contents = << >> THEN eng
  ELSE AddAll(add(eng, Head(contents)).eng, Tail(contents))

\* a fresh engine with the same configuration that received the adds since
\* the last clear and then built its index once, from an empty index
BulkEngine == rebuild_index(AddAll(with_config(config), added))

\* the engine once its pending delta is committed
CommittedEngine == IF temp_trigrams = << >> THEN Eng ELSE rebuild_index(Eng)

\* C8: the index an engine reaches through interleaved adds and searches
\* (incremental merges) has the same blocks and postings, and gives the same
\* results for every query and limit, as a fresh engine that receives the
\* same adds and builds its index once through the cold-start path.
C8_IncrementalEqualsBulk ==
  LET a == CommittedEngine
      b == BulkEngine
  IN  /\ a.blocks = b.blocks
      /\ a.postings = b.postings
      /\ \A q \in Queries, l \in Limits :
           {o.results : o \in Evaluate(a.blocks, a.postings, a.doc_lengths,
                                        a.config.min_overlap_ratio,
                                        a.normalizer.strip_diacritics, q, l)}
           = {o.results : o \in Evaluate(b.blocks, b.postings, b.doc_lengths,
                                          b.config.min_overlap_ratio,
                                          b.normalizer.strip_diacritics, q, l)}

\* the index holds three documents committed by a cold build and a later
\* merge, with a posting list that the merge extended
C8_Witness ==
  /\ ret.op = "search" /\ ret.rebuild = "merge"
  /\ len(Eng) = 3 /\ temp_trigrams = << >>
  /\ \E i \in 1..Len(blocks) : blocks[i].len = 3

\* C9 as stated: every search increments the query counter and leaves the
\* dirty flag clear and the delta buffer empty, whatever query and limit.
C9_SearchCommitsAlways ==
  [][ret'.op = "search" =>
       /\ query_count' = query_count + 1
       /\ ~needs_rebuild'
       /\ temp_trigrams' = << >>]_vars

\* C9 amended: every search increments the query counter and, if the dirty
\* flag is set when it is called and limit is not 0, commits the delta
\* buffer before returning, whatever the query is; after a search with
\* limit > 0 the dirty flag is clear and the delta buffer is empty, while a
\* search with limit 0 returns before the rebuild and leaves the flag, the
\* delta buffer and the committed index as they were.
C9_SearchCommitsUnlessLimitZero ==
  [][ret'.op = "search" =>
       /\ query_count' = query_count + 1
       /\ ret'.limit > 0 => (~needs_rebuild' /\ temp_trigrams' = << >>)
       /\ ret'.limit = 0 => UNCHANGED << needs_rebuild, temp_trigrams, blocks, postings >>]_vars

\* a search whose query is rejected as too long has committed a pending
\* delta through the merge path
C9_Witness ==
  /\ ret.op = "search" /\ ret.rebuild = "merge"
  /\ ret.out.exit = "query_too_long"
  /\ ~needs_rebuild /\ temp_trigrams = << >> /\ query_count = 2

InvalidControls == (0..8) \cup {11, 12} \cup (14..31) \cup {127}

\* tab, newline, carriage return and the printable bytes 0x20..0x7E
AllowedBytes == {9, 10, 13} \cup (32..126)

\* C11: add returns InvalidInput for every document within the size limit
\* that contains a byte in 0x00..=0x08, 0x0B, 0x0C, 0x0E..=0x1F or 0x7F, and
\* accepts every document within the size limit made only of tab, newline,
\* carriage return and printable bytes.
C11_ControlCharacters ==
  (ret.op = "add" /\ RLen(ret.content) <= MAX_DOCUMENT_LENGTH) =>
    LET bytes == Range(Bytes(ret.content))
    IN  /\ bytes \cap InvalidControls # {} => ret.result = Err("InvalidInput")
        /\ bytes \subseteq AllowedBytes =>
             /\ ret.result.ok
             /\ get(Eng, ret.result.id) = Some(StoredBytes(ret.result.id))

\* the document "a\x7Fc" was rejected with InvalidInput
C11_Witness ==
  /\ ret.op = "add" /\ Bytes(ret.content) = <<97, 127, 99>>
  /\ ret.result = Err("InvalidInput") /\ is_empty(Eng)

\* the index search evaluates a query on: the delta buffer committed
Committed(eng) == IF eng.needs_rebuild THEN rebuild_index(eng) ELSE eng

\* the posting-list lengths of the query trigrams (the first
\* MAX_QUERY_TRIGRAMS windows of the normalized query) that have a block
RetainedLens(eng, query) ==
  LET qb == Bytes(normalize_into(query, eng.normalizer.strip_diacritics))
      m  == IF Len(qb) - 2 < MAX_QUERY_TRIGRAMS THEN Len(qb) - 2
            ELSE MAX_QUERY_TRIGRAMS
  IN  {eng.blocks[j].len : j \in {j \in 1..Len(eng.blocks) :
         \E i \in 1..m :
           eng.blocks[j].trigram = qb[i] * 65536 + qb[i + 1] * 256 + qb[i + 2]}}

\* the cases in which search is to return the empty vector: no documents,
\* limit 0, a query of more than MAX_QUERY_LENGTH bytes, a normalized query
\* of fewer than 3 bytes, no query trigram with a block, or a shortest
\* posting list of more than MAX_SEED_POSTING_LIST entries
EmptyCase(eng, query, limit) ==
  \/ is_empty(eng)
  \/ limit = 0
  \/ RLen(query) > MAX_QUERY_LENGTH
  \/ RLen(normalize_into(query, eng.normalizer.strip_diacritics)) < 3
  \/ RetainedLens(eng, query) = {}
  \/ \A n \in RetainedLens(eng, query) : n > MAX_SEED_POSTING_LIST

\* C12: search never fails and returns the empty vector when the index holds
\* no documents, limit is 0, the query is longer than 1000 bytes, the
\* normalized query is shorter than 3 bytes, no query trigram has a posting
\* block, or the seed posting list has more than 100000 entries.  The first
\* conjunct is the empty vector of a search that returned, the second that no
\* search of these cases ends the process.
C12_EmptyCases ==
  /\ (ret.op = "search" /\ EmptyCase(Eng, ret.query, ret.limit))
       => ret.out.results = << >>
  /\ ~ (/\ ret.op = "crash"
        /\ ret.call = "search"
        /\ EmptyCase(Committed(Eng), ret.query, ret.limit))

\* the documents stored since the last clear whose normalized form has fewer
\* than 3 bytes
ShortDocs == {d \in 0..(len(Eng) - 1) : Len(StoredBytes(d)) < 3}

\* C13: adding a document whose normalized form has fewer than 3 bytes
\* succeeds with the next doc id, the document is counted by len() and
\* returned by get(), it adds no entry to the delta buffer and it is in no
\* posting list and in no search result.
C13_ShortDocuments ==
  /\ ( /\ ret.op = "add"
       /\ ~ exceeds_max_length(ret.content)
       /\ ~ contains_invalid_controls(ret.content)
       /\ RLen(normalize_into(ret.content, Strip)) < 3 )
       => /\ ret.result.ok
          /\ ret.result.id = len(Eng) - 1
          /\ get(Eng, ret.result.id)
               = Some(Bytes(normalize_into(ret.content, Strip)))
          /\ ret.result.id \in ShortDocs
  /\ \A d \in ShortDocs :
       /\ \A i \in 1..Len(temp_trigrams) : temp_trigrams[i].doc_id # d
       /\ d \notin Range(postings)
       /\ ret.op = "search"
            => \A i \in 1..Len(ret.out.results) : ret.out.results[i].doc_id # d

\* a search returned a document while a short document, added before it, is
\* stored next to it
C13_Witness ==
  /\ ret.op = "search" /\ ret.out.results # << >>
  /\ 0 \in ShortDocs
  /\ ret.out.results[1].doc_id = 1

C15_ClearResets ==
  /\ ret.op = "clear" =>
       /\ len(Eng) = 0
       /\ \A d \in 0..(MaxAdds + 1) : get(Eng, d) = None
       /\ \A query \in Queries, limit \in Limits :
            \A r \in search(Eng, query, limit) : r.out.results = << >>
       /\ \A content \in Contents :
            LET r == add(Eng, content)
            IN  r.result.ok => r.result.id = 0
       /\ documents.spans = << >> /\ documents.head = 0
       /\ [Eng EXCEPT !.documents = ArenaNew, !.norm_buf = BUF_CAPACITY,
                      !.query_buf = BUF_CAPACITY] = with_config(config)
  /\ ret.op = "search" =>
       \A i \in 1..Len(ret.out.results) :
         LET d == ret.out.results[i].doc_id
         IN  /\ d < Len(added)
             /\ Windows(StoredBytes(d)) \cap Range(QueryTrigrams) # {}

\* after two documents were cleared away, a search returned the one document
\* added since
C15_Witness ==
  /\ ret.op = "search" /\ Len(ret.out.results) = 1
  /\ Len(issued) = 3 /\ Len(added) = 1
  /\ ret.out.results[1].doc_id = 0

\* C16: search is deterministic: two engines with the same configuration
\* that received the same sequence of add, search and clear calls return
\* identical result vectors (doc ids, scores, order) for every query and
\* limit, equal scores included.
C16_Deterministic ==
  (ret.op = "search" \/ twin_ret.op = "search") =>
    /\ ret.op = "search" /\ twin_ret.op = "search"
    /\ ret.out.results = twin_ret.out.results

\* C17: compress_sorted followed by decompress_sorted is the identity on
\* every non-decreasing u32 sequence (repeated values and the empty sequence
\* included), and compress_sorted returns NotSorted for every sequence that
\* is not non-decreasing.
C17_RoundTrip ==
  /\ ret.op = "compress_sorted" =>
       IF \A i, j \in 1..Len(ret.input) : i < j => ~ u32_lt(ret.input[j], ret.input[i])
         THEN ret.result.ok
         ELSE ret.result = [ok |-> FALSE, error |-> "NotSorted"]
  /\ ret.op = "decompress_sorted" =>
       /\ ret.result.ok
       /\ decompressed = ret.input

Count(seq, x) == Cardinality({i \in 1..Len(seq) : seq[i] = x})

\* the (trigram, bonus) pairs search worked with, in its sorted order
ObservedBonus ==
  [i \in 1..Len(ret.out.qts) |-> << SortedTrigram(i), ret.out.qts[i].bonus >>]

\* the last search resolved its query trigrams against the block table
Resolved ==
  /\ ret.op = "search"
  /\ ret.out.exit # "empty_or_limit_zero"
  /\ ret.out.exit # "query_too_long"
  /\ ret.out.exit # "short_query"

\* the positions (from 1) of the query trigrams that have a block
RetainedAt == {i \in 1..Len(QueryTrigrams) : HasBlock(QueryTrigrams[i])}

\* C19 as stated: among the query trigrams that have a block, the first
\* three in query order get bonus 2 and the others bonus 1, whether or not
\* earlier query trigrams were dropped.
C19_BonusByRetainedRank ==
  Resolved =>
    LET expected == {<< QueryTrigrams[i],
                        IF Cardinality({j \in RetainedAt : j < i}) < 3
                          THEN PREFIX_BONUS ELSE 1 >> : i \in RetainedAt}
    IN  /\ Len(ret.out.qts) = Cardinality(RetainedAt)
        /\ \A x \in expected \cup Range(ObservedBonus) :
             Count(ObservedBonus, x)
               = Cardinality({i \in RetainedAt :
                    x = << QueryTrigrams[i],
                           IF Cardinality({j \in RetainedAt : j < i}) < 3
                             THEN PREFIX_BONUS ELSE 1 >>})

\* C19 amended: the bonus goes by the position of the trigram in the query:
\* a retained query trigram gets bonus 2 if it is one of the first three
\* trigrams of the query and bonus 1 otherwise, so a dropped trigram among
\* the first three leaves fewer than three retained trigrams with bonus 2.
C19_BonusByQueryPosition ==
  Resolved =>
    LET expected == {<< QueryTrigrams[i], IF i <= 3 THEN PREFIX_BONUS ELSE 1 >>
                       : i \in RetainedAt}
    IN  /\ Len(ret.out.qts) = Cardinality(RetainedAt)
        /\ \A x \in expected \cup Range(ObservedBonus) :
             Count(ObservedBonus, x)
               = Cardinality({i \in RetainedAt :
                    x = << QueryTrigrams[i], IF i <= 3 THEN PREFIX_BONUS ELSE 1 >>})

\* the first two trigrams of "aaaabb" had no block: of the two retained
\* ones the third of the query has bonus 2, the fourth bonus 1, and the
\* search returned a document
C19_Witness ==
  /\ Resolved /\ ret.out.results # << >>
  /\ ret.query = Str(<<97, 97, 97, 97, 98, 98>>)
  /\ RetainedAt = {3, 4}
  /\ Range(ObservedBonus) = { << QueryTrigrams[3], PREFIX_BONUS >>,
                              << QueryTrigrams[4], 1 >> }

\* clamp(ceil(k * min_overlap_ratio), 1, k) for the configured ratio
Required(k) ==
  LET c == CeilRatio(k)
      m == IF c > 1 THEN c ELSE 1
  IN  IF m < k THEN m ELSE k

\* the documents that hold each of the first n query trigrams in the order
\* search sorted them
HoldingFirst(n) ==
  {d \in 0..(len(Eng) - 1) :
     \A i \in 1..n : SortedTrigram(i) \in Windows(StoredBytes(d))}

\* C20: with k retained query trigrams sorted by ascending posting-list
\* length, search treats exactly the first
\* required = clamp(ceil(k * min_overlap_ratio), 1, k) of them as hard and
\* the other k - required as soft, for every min_overlap_ratio in [0, 1];
\* ratio 0 gives one hard trigram, ratio 1 makes all k hard.  The first
\* conjunct is the value of required for k = 1..30, the second the
\* partition a search works with: its candidates are the documents that
\* hold every hard trigram, whatever soft trigrams they hold.
C20_RequiredPartition ==
  /\ ret.op = "required_end" =>
       /\ ret.required_end = Required(ret.total)
       /\ config.min_overlap_ratio[1] = 0 => ret.required_end = 1
       /\ config.min_overlap_ratio = <<1, 1>> => ret.required_end = ret.total
  /\ (ret.op = "search" /\ (ret.out.exit = "done" \/ ret.out.exit = "hard_empty")) =>
       LET k == Len(ret.out.qts)
       IN  /\ \A i \in 1..(k - 1) : ret.out.qts[i].len <= ret.out.qts[i + 1].len
           /\ ret.out.required_end = Required(k)
           /\ Range(ret.out.hard) = HoldingFirst(Required(k))
           /\ {ret.out.scored[i].doc_id : i \in 1..Len(ret.out.scored)}
                = HoldingFirst(Required(k))

\* a call of add("aabb"), add("AAAAB") or add("aaabb"): the posting lists
\* of "aaa" and "abb" overlap without one holding the other
AddOverlap ==
  /\ Len(issued) < MaxAdds
  /\ AddWith({Str(<<97, 97, 98, 98>>), Str(<<65, 65, 65, 65, 66>>),
              Str(<<97, 97, 97, 98, 98>>)})

\* a call of search with "aaabb" or "aaaabb" and a limit that does not cut
\* the results
SearchOverlap ==
  SearchWith({Str(<<97, 97, 97, 98, 98>>), Str(<<97, 97, 97, 97, 98, 98>>)},
             {MaxAdds})

NextOverlap == AddOverlap \/ SearchOverlap

\* the engine under adds and searches whose hard and soft phases both keep
\* and drop candidates
OverlapSpec == Init /\ [][NextOverlap]_vars

\* the last search got as far as its seed candidates
Seeded == ret.op = "search" /\ (ret.out.exit = "done" \/ ret.out.exit = "hard_empty")

\* the doc ids of the posting list of the i-th sorted query trigram
PostingSet(i) == Range(QtPostings(postings, ret.out.qts[i]))

\* the doc ids of a candidate vector, in its order
DocIds(candidates) == [i \in 1..Len(candidates) |-> candidates[i].doc_id]

RECURSIVE AfterHard(_)
\* the candidate vector of the last search once the sorted query trigrams
\* 1..j were applied: the seed for j = 1, then one hard_intersect each
AfterHard(j) ==
  IF j = 1
    THEN LET seed == QtPostings(postings, ret.out.qts[1])
         IN  [i \in 1..Len(seed) |-> [doc_id |-> seed[i], matches |-> ret.out.qts[1].bonus]]
    ELSE hard_intersect(AfterHard(j - 1), QtPostings(postings, ret.out.qts[j]),
                        ret.out.qts[j].bonus)

\* C21: after every step of the hard phase the candidates are exactly the
\* doc ids that occur in the seed posting list and in the posting list of
\* every hard trigram applied so far, strictly ascending by doc id; the
\* search returns the empty vector at the first step that leaves no
\* candidate, and otherwise goes on with the candidates of the last step.
C21_HardIntersection ==
  Seeded =>
    LET required_end == ret.out.required_end
        empty_at == {j \in 1..required_end : AfterHard(j) = << >>}
    IN  /\ \A j \in 1..required_end :
             LET ids == DocIds(AfterHard(j))
             IN  /\ Range(ids) = {d \in PostingSet(1) : \A i \in 2..j : d \in PostingSet(i)}
                 /\ \A i \in 1..(Len(ids) - 1) : ids[i] < ids[i + 1]
        /\ ret.out.exit = "hard_empty" <=> empty_at # {}
        /\ ret.out.exit = "hard_empty" => ret.out.results = << >>
        /\ ret.out.exit = "done" => ret.out.hard = DocIds(AfterHard(required_end))

\* a hard_intersect step dropped one of two candidates and kept the other
C21_Witness ==
  /\ Seeded /\ ret.out.exit = "done" /\ ret.out.required_end >= 2
  /\ \E j \in 2..ret.out.required_end :
       /\ Len(AfterHard(j - 1)) = 2
       /\ Len(AfterHard(j)) = 1

\* the last search scored its candidates
Scored == ret.op = "search" /\ ret.out.exit = "done"

RECURSIVE AfterSoft(_)
\* the candidate vector of the last search once the sorted query trigrams
\* 1..j were applied, for j >= required_end: the survivors of the hard
\* phase, then one soft_merge per soft trigram
AfterSoft(j) ==
  IF j <= ret.out.required_end THEN AfterHard(ret.out.required_end)
  ELSE soft_merge(AfterSoft(j - 1), QtPostings(postings, ret.out.qts[j]),
                  ret.out.qts[j].bonus)

\* C22: soft accumulation never adds, removes or reorders candidates: each
\* soft_merge leaves the sequence of candidate doc ids as it was and changes
\* a match count only by adding the trigram's bonus to a candidate whose doc
\* id is in the trigram's posting list; the scored candidates are the
\* survivors of the hard phase, in the same order.
C22_SoftFrame ==
  Scored =>
    /\ \A j \in (ret.out.required_end + 1)..Len(ret.out.qts) :
         LET before == AfterSoft(j - 1)
             after  == AfterSoft(j)
         IN  /\ DocIds(after) = DocIds(before)
             /\ \A i \in 1..Len(after) :
                  \/ after[i].matches = before[i].matches
                  \/ /\ after[i].matches = before[i].matches + ret.out.qts[j].bonus
                     /\ after[i].doc_id \in PostingSet(j)
    /\ DocIds(ret.out.scored) = ret.out.hard

\* a soft trigram was applied to a candidate that its posting list does not
\* hold, and the candidate was scored and returned
C22_Witness ==
  /\ Scored
  /\ \E j \in (ret.out.required_end + 1)..Len(ret.out.qts) :
       \E i \in 1..Len(ret.out.hard) :
         /\ ret.out.hard[i] \notin PostingSet(j)
         /\ \E k \in 1..Len(ret.out.results) : ret.out.results[k].doc_id = ret.out.hard[i]

RECURSIVE Matching(_, _)
\* the sum of the bonuses of the sorted query trigrams 1..n, one term per
\* occurrence, whose posting list holds the doc id d
Matching(d, n) ==
  IF n = 0 THEN 0
  ELSE Matching(d, n - 1) + (IF d \in PostingSet(n) THEN ret.out.qts[n].bonus ELSE 0)

\* C23: every candidate that reaches scoring has a match count equal to the
\* sum of the bonuses of all retained query trigram occurrences, hard and
\* soft, whose posting list holds its doc id (a trigram that occurs twice in
\* the query counts twice), and is scored with that count.
C23_MatchCount ==
  Scored =>
    LET total == Len(ret.out.qts)
        cands == AfterSoft(total)
    IN  /\ Len(ret.out.scored) = Len(cands)
        /\ \A i \in 1..Len(cands) :
             /\ cands[i].matches = Matching(cands[i].doc_id, total)
             /\ ret.out.scored[i] =
                  [doc_id |-> cands[i].doc_id,
                   score |-> compute_score_fast(doc_lengths, cands[i].doc_id,
                                                Matching(cands[i].doc_id, total), total)]

\* a scored candidate matched a trigram that occurs twice in the query, with
\* both occurrences counted, matched a hard and a soft trigram, and missed
\* another trigram
C23_Witness ==
  /\ Scored
  /\ LET total == Len(ret.out.qts)
         cands == AfterSoft(total)
     IN  \E c \in 1..Len(cands) :
           /\ \E i, j \in 1..total :
                /\ i < j /\ ret.out.qts[i].offset = ret.out.qts[j].offset
                /\ cands[c].doc_id \in PostingSet(i)
           /\ \E j \in (ret.out.required_end + 1)..total : cands[c].doc_id \in PostingSet(j)
           /\ \E j \in 1..total : cands[c].doc_id \notin PostingSet(j)
           /\ cands[c].matches = 6

\* the number of entries of a sort input chosen freely; the others repeat
\* Filler
MaxEntries == 2

\* entries that differ from each other and from Filler in one byte of the
\* key each: the four bytes of the doc id and the three of the trigram
SortEntries ==
  { [trigram |-> from_bytes(97, 97, 98), doc_id |-> 0],
    [trigram |-> from_bytes(97, 97, 98), doc_id |-> 65536 + 300],
    [trigram |-> from_bytes(97, 97, 98), doc_id |-> 16777216],
    [trigram |-> from_bytes(97, 97, 97), doc_id |-> 2147483647],
    [trigram |-> from_bytes(97, 98, 98), doc_id |-> 1],
    [trigram |-> from_bytes(255, 0, 0), doc_id |-> 256] }

Filler == [trigram |-> from_bytes(97, 97, 98), doc_id |-> 300]

\* the size of the padded vectors sorted by the comparison path
ShortSize == 32

\* the inputs of sort_trigrams: at most MaxEntries of SortEntries, alone or
\* followed by copies of Filler up to `size` entries
SortInputs(size) ==
  { head \o [i \in 1..(size - Len(head)) |-> Filler] :
      head \in UNION { [1..n -> SortEntries] : n \in 0..MaxEntries } }

\* Lattice::sort_trigrams(&mut entries) on a vector of at most MaxEntries
\* entries, on one of ShortSize, on one of RADIX_SORT_THRESHOLD and on one
\* of RADIX_SORT_THRESHOLD + 1
SortTrigrams ==
  /\ ret.op = "new"
  /\ \E size \in {0, ShortSize, RADIX_SORT_THRESHOLD, RADIX_SORT_THRESHOLD + 1} :
       \E entries \in SortInputs(size) :
         ret' = [op |-> "sort_trigrams", entries |-> entries,
                 sorted |-> sort_trigrams(entries)]
  /\ UNCHANGED << blocks, postings, documents, doc_lengths, normalizer, config,
                  temp_trigrams, needs_rebuild, norm_buf, query_buf, query_count,
                  documents_added, issued, added, searched, twin, twin_ret,
                  compressed, decompressed >>

NextSort == SortTrigrams

\* sort_trigrams on vectors below and at the radix threshold
SortSpec == Init /\ [][NextSort]_vars

\* C24: sort_trigrams returns a permutation of its input in ascending order
\* of (trigram, doc_id), on the comparison path (fewer than 512 entries) and
\* on the radix path (512 entries and more).
C24_SortTrigrams ==
  ret.op = "sort_trigrams" =>
    LET n == Len(ret.entries)
    IN  /\ Len(ret.sorted) = n
        /\ \A i \in 1..(n - 1) : ~ EntryLess(ret.sorted[i + 1], ret.sorted[i])
        /\ \A x \in SortEntries \cup {Filler} :
             Count(ret.sorted, x) = Count(ret.entries, x)

\* the radix path sorted a vector that began with two entries out of order,
\* which differ in the top byte of the doc id only
C24_Witness ==
  /\ ret.op = "sort_trigrams"
  /\ Len(ret.entries) = RADIX_SORT_THRESHOLD
  /\ EntryLess(ret.entries[2], ret.entries[1])
  /\ ret.entries[1].trigram = ret.entries[2].trigram
  /\ ret.entries[1].doc_id = 16777216
  /\ ret.sorted[RADIX_SORT_THRESHOLD] = ret.entries[1]

RECURSIVE SumLens(_)
\* the sum of the lengths of a sequence of blocks
SumLens(bs) == IF bs = << >> THEN 0 ELSE Head(bs).len + SumLens(Tail(bs))

\* C25: the block ranges tile the postings vector: the first block starts
\* at offset 0, every other block starts where the block before it ends,
\* every block has at least one posting, and the postings vector is as long
\* as the block lengths together.  Blocks and postings change in
\* rebuild_index and clear only, so this is stated of every state.
C25_BlocksTilePostings ==
  /\ blocks # << >> => blocks[1].offset = 0
  /\ \A i \in 1..(Len(blocks) - 1) :
       blocks[i + 1].offset = blocks[i].offset + blocks[i].len
  /\ \A i \in 1..Len(blocks) : blocks[i].len >= 1
  /\ Len(postings) = SumLens(blocks)

\* an incremental rebuild produced an index in which a block copied from
\* the delta precedes a merged block of several postings, which precedes a
\* block copied from the committed index
C25_Witness ==
  /\ ret.op = "search" /\ ret.rebuild = "merge"
  /\ Len(blocks) = 3
  /\ blocks[1].len = 1 /\ blocks[2].len = 2 /\ blocks[3].len = 1
  /\ postings = << 1, 0, 1, 0 >>

\* C26: an add that returns an error leaves the observable state of the
\* engine as it was: the stored documents (len() and every get(d)), the
\* document lengths, the delta buffer, the dirty flag, the committed index,
\* the configuration and both counters do not change, and every search gives
\* after the call what it would have given before it.
C26_RejectedAddFrame ==
  [][(ret'.op = "add" /\ ~ ret'.result.ok) =>
       /\ UNCHANGED << blocks, postings, documents, doc_lengths, normalizer,
                       config, temp_trigrams, needs_rebuild, query_count,
                       documents_added >>
       /\ \A q \in Queries, l \in Limits :
            {r.out.results : r \in search(Eng, q, l)}
              = {r.out.results : r \in search(Eng', q, l)}]_vars

\* an add was turned away by the arena (its text of 60000 bytes has 90000
\* once normalized) while the engine held a document and a pending delta
C26_Witness ==
  /\ ret.op = "add" /\ ~ ret.result.ok /\ ret.result.err = "TooLarge"
  /\ RLen(ret.content) <= MAX_DOCUMENT_LENGTH
  /\ len(Eng) >= 1 /\ temp_trigrams # << >>

\* C27: between public calls the dirty flag is set exactly when the delta
\* buffer is not empty, so no search enters rebuild_index with an empty
\* delta.
C27_DirtyIffDelta ==
  [](/\ needs_rebuild <=> temp_trigrams # << >>
     /\ ret.op = "search" => ret.rebuild # "empty_delta")

\* a short document was added to an engine whose delta had been committed:
\* the flag stays clear and the delta empty although a document was stored
C27_Witness ==
  /\ ret.op = "add" /\ ret.result.ok /\ ret.result.id = 1
  /\ RLen(normalize_into(ret.content, normalizer.strip_diacritics)) < 3
  /\ blocks # << >>
  /\ ~ needs_rebuild /\ temp_trigrams = << >>

\* ------------------------------------------------------------------------
\* A document searched by its own text
\* ------------------------------------------------------------------------
\* "bbbbbaa" followed by 1000 spaces (1007 bytes): normalizing it grows
\* norm_buf to 1132 bytes
Wide == Str(<<98, 98, 98, 98, 98, 97, 97>>) \o << << <<32>>, 1000 >> >>

\* "bbbbb", 35 times "a", 30 times U+0130 and 127 times "a" (227 bytes):
\* 257 bytes once normalized, U+0130 lowercasing to "i" and U+0307
Long ==
  Str(<<98, 98, 98, 98, 98>>)
    \o << << <<97>>, 35 >>, << <<196, 176>>, 30 >>, << <<97>>, 127 >> >>

\* a call of add: Wide into an engine without documents, Long after it
AddSelf ==
  /\ Len(issued) < MaxAdds
  /\ AddWith(IF added = << >> THEN {Wide} ELSE {Long})

\* the queries of SearchSelf: the two documents and "bbbbbaa"
SelfQueries == {Str(<<98, 98, 98, 98, 98, 97, 97>>), Wide, Long}

\* a call of search with the text of a stored document and a limit that
\* does not cut the results
SearchSelf == SearchWith(SelfQueries, {MaxAdds})

NextSelf == AddSelf \/ SearchSelf \/ Clear

\* the engine under adds of two documents and searches with their texts
SelfSpec == Init /\ [][NextSelf]_vars

\* C28: a search with the text of a stored document finds that document:
\* when search is called with a query of at most 1000 bytes that was added
\* as document d since the last clear and has at least 3 normalized bytes,
\* and with a limit of at least len(), the call returns and its results
\* hold d.
C28_SelfRetrieval ==
  \A i \in 1..Len(added) :
    (/\ ret.op = "search" \/ (ret.op = "crash" /\ ret.call = "search")
     /\ ret.query = added[i]
     /\ RLen(ret.query) <= MAX_QUERY_LENGTH
     /\ RLen(normalize_into(ret.query, normalizer.strip_diacritics)) >= 3
     /\ ret.limit >= len(Eng))
    => /\ ret.op = "search"
       /\ \E k \in 1..Len(ret.out.results) : ret.out.results[k].doc_id = i - 1

\* the posting list of trigram t in the index (bs, ps), empty without a block
ListOf(bs, ps, t) ==
  IF \E i \in 1..Len(bs) : bs[i].trigram = t
    THEN block_postings(bs[CHOOSE i \in 1..Len(bs) : bs[i].trigram = t], ps)
    ELSE << >>

RECURSIVE Ascending(_)
\* the numbers of a set in ascending order
Ascending(ids) ==
  IF ids = {} THEN << >>
  ELSE LET least == CHOOSE x \in ids : \A y \in ids : x <= y
       IN  << least >> \o Ascending(ids \ {least})

\* the doc ids that the delta buffer holds for trigram t
DeltaIds(t) ==
  {temp_trigrams[j].doc_id : j \in {k \in 1..Len(temp_trigrams) : temp_trigrams[k].trigram = t}}

\* C29: in every call of search whose rebuild takes the incremental path,
\* before the rebuild every doc id of the delta buffer is greater than every
\* doc id of the committed postings and all of them are below len(); the
\* rebuild leaves for every trigram the committed list followed by the
\* ascending doc ids of the delta, and no doc id is in both (two ascending
\* lists meet in the equal branch of merge_sorted_dedup exactly when they
\* share a doc id).
C29_DeltaAboveCommitted ==
  [][(ret'.op = "search" /\ ret'.rebuild = "merge") =>
       /\ \A i \in 1..Len(postings), j \in 1..Len(temp_trigrams) :
            postings[i] < temp_trigrams[j].doc_id
       /\ \A i \in 1..Len(postings) : postings[i] < len(Eng)
       /\ \A j \in 1..Len(temp_trigrams) : temp_trigrams[j].doc_id < len(Eng)
       /\ \A t \in {blocks[i].trigram : i \in 1..Len(blocks)}
                \cup {temp_trigrams[j].trigram : j \in 1..Len(temp_trigrams)} :
            /\ Range(ListOf(blocks, postings, t)) \cap DeltaIds(t) = {}
            /\ ListOf(blocks', postings', t)
                 = ListOf(blocks, postings, t) \o Ascending(DeltaIds(t))
       /\ Len(blocks') = Cardinality({blocks[i].trigram : i \in 1..Len(blocks)}
                \cup {temp_trigrams[j].trigram : j \in 1..Len(temp_trigrams)})]_vars

\* an incremental rebuild left a list of three documents for a trigram that
\* the committed index and the delta buffer shared, next to a list of one
C29_Witness ==
  /\ ret.op = "search" /\ ret.rebuild = "merge"
  /\ \E i \in 1..Len(blocks) :
       /\ blocks[i].len = 3
       /\ block_postings(blocks[i], postings) = << 0, 1, 2 >>
  /\ \E i \in 1..Len(blocks) : blocks[i].len = 1

\* the calls of the four functions, as recorded in ret.op
CodecOps == {"delta_encode", "delta_decode", "compress_sorted", "decompress_bytes"}

\* the delta sequences given to delta_decode: the deltas of the
\* non-decreasing sequences of U32Seqs, whose running sums stay within u32
DeltaSeqs == {delta_encode(s, << >>).output : s \in {x \in U32Seqs : IsSorted(x)}}

\* delta_encode(input, &mut decompressed): the caller's Vec<u32> is the
\* output vector, with whatever an earlier call left in it
DeltaEncode ==
  /\ \E input \in U32Seqs :
       LET r == delta_encode(input, decompressed)
       IN  /\ decompressed' = r.output
           /\ ret' = [op |-> "delta_encode", input |-> input,
                      result |-> [ok |-> r.ok]]
  /\ UNCHANGED << blocks, postings, documents, doc_lengths, normalizer, config,
                  temp_trigrams, needs_rebuild, norm_buf, query_buf, query_count,
                  documents_added, issued, added, searched, twin, twin_ret,
                  compressed >>

\* delta_decode(input, &mut decompressed) for one of the delta sequences
DeltaDecode ==
  /\ \E input \in DeltaSeqs :
       LET r == delta_decode(input, decompressed)
       IN  /\ decompressed' = r.output
           /\ ret' = [op |-> "delta_decode", input |-> input,
                      result |-> [ok |-> r.ok]]
  /\ UNCHANGED << blocks, postings, documents, doc_lengths, normalizer, config,
                  temp_trigrams, needs_rebuild, norm_buf, query_buf, query_count,
                  documents_added, issued, added, searched, twin, twin_ret,
                  compressed >>

\* decompress_sorted(&compressed, &mut decompressed) on the bytes that the
\* vector of compress_sorted holds at the time of the call
DecompressBytes ==
  /\ LET r == decompress_sorted(compressed, decompressed)
     IN  /\ decompressed' = r.output
         /\ ret' = [op |-> "decompress_bytes", input |-> compressed,
                    result |-> r.result]
  /\ UNCHANGED << blocks, postings, documents, doc_lengths, normalizer, config,
                  temp_trigrams, needs_rebuild, norm_buf, query_buf, query_count,
                  documents_added, issued, added, searched, twin, twin_ret,
                  compressed >>

NextOverwrite == DeltaEncode \/ DeltaDecode \/ CompressSorted \/ DecompressBytes

\* a caller that hands the same two vectors to the four functions, call
\* after call
OverwriteSpec == Init /\ [][NextOverwrite]_vars

\* C30: delta_encode, delta_decode, compress_sorted and decompress_sorted
\* overwrite their output vector: after a call that returned Ok the vector
\* holds what the same call leaves in an empty vector, whatever it held
\* before, the call with an empty input included.
C30_OutputOverwritten ==
  /\ (ret.op = "delta_encode" /\ ret.result.ok)
       => decompressed = delta_encode(ret.input, << >>).output
  /\ (ret.op = "delta_decode" /\ ret.result.ok)
       => decompressed = delta_decode(ret.input, << >>).output
  /\ (ret.op = "compress_sorted" /\ ret.result.ok)
       => compressed = compress_sorted(ret.input, << >>).output
  /\ (ret.op = "decompress_bytes" /\ ret.result.ok)
       => decompressed = decompress_sorted(ret.input, << >>).output

\* the same for the calls with a non-empty input
C30_NonEmptyOverwritten ==
  ret.op \in CodecOps /\ ret.input # << >> => C30_OutputOverwritten

====
